---- MODULE Spec2Model ----
(***************************************************************************)
(* Machine reconciliation of the GCP machine-API provider: the Reconciler  *)
(* (create / update / delete / exists against the compute service), the    *)
(* provider-status condition list, the cloud the Reconciler talks to, the  *)
(* machine scope that patches the Machine store on Close, and the Actuator *)
(* that wraps each Reconciler method in a scope, events and errors.        *)
(***************************************************************************)
EXTENDS Integers, Sequences, FiniteSets, TLC

(* ------------------------------ bounds --------------------------------- *)

\* longest TargetPools list of a provider spec
MaxPools == 2
\* last reading of the wall clock
MaxClock == 2
\* most getMachineTypeFromCache calls one goroutine makes
MaxCalls == 2
\* most metadata values Subscribe hands to markForDeletion without returning
MaxUpdates == 2
\* longest quota list of a region
MaxQuotas == 2
\* largest accelerator count of a provider spec or of an A2 machine type
MaxAccelCount == 2
\* largest quota usage and limit, in halves (float64 values n/2)
MaxHalves == 4

(* ------------------------- program constants --------------------------- *)

requeueAfterSeconds == 20

machineCreationSucceedReason == "MachineCreationSucceeded"
machineCreationSucceedMessage == "machine successfully created"
machineCreationFailedReason == "MachineCreationFailed"
MachineCreated == "MachineCreated"

ConditionTrue == "True"
ConditionFalse == "False"
ConditionUnknown == "Unknown"

VARIABLES
    machine,    \* the Machine object held by the scope (labels, annotations, spec)
    status,     \* the decoded provider status and the status fields of the Machine
    cloud,      \* the compute service's state for this Machine
    clock,      \* the wall clock metav1.Now() reads
    round,      \* the handlers of the current reconciliation round, with their calls
    lastNew,    \* the newCondition of the last direct reconcileProviderConditions call
    cached,     \* the Machine as the machine controller read it, handed to the Actuator
    mc,         \* the machineTypesCache of the MachineSet controller: mutex and map
    callers,    \* each goroutine inside getMachineTypeFromCache: position, arguments, result
    fetches,    \* the MachineTypesGet calls the cache has made, in order
    stopClosed, \* the stop channel handed to the termination handler's Run: closed or not
    errs,       \* the buffered channel Run's goroutine sends run's result on
    wg,         \* the counter of Run's WaitGroup
    ctxDone,    \* whether Run's context has been cancelled
    pc,         \* the positions of Run and of the goroutine it starts
    results,    \* what run and Run returned, and the order of the events seen
    checked     \* one checkQuota call: the provider spec, the region's quotas, the result

machineVars == <<machine, status, cloud, clock, round, lastNew, cached>>
cacheVars == <<mc, callers, fetches>>
handlerVars == <<stopClosed, errs, wg, ctxDone, pc, results>>
quotaVars == <<checked>>

vars == <<machine, status, cloud, clock, round, lastNew, cached,
          mc, callers, fetches, stopClosed, errs, wg, ctxDone, pc, results, checked>>

\* the parts of the provider a specification leaves out stay as they are
CacheIdle == mc = <<>> /\ callers = <<>> /\ fetches = <<>>

HandlerIdle ==
    /\ stopClosed = FALSE /\ errs = <<>> /\ wg = 0 /\ ctxDone = FALSE
    /\ pc = <<>> /\ results = <<>>

QuotaIdle == checked = <<>>

(* ----------------------- provider conditions --------------------------- *)

CondTypes == {MachineCreated, "Other"}
CondStatuses == {ConditionTrue, ConditionFalse, ConditionUnknown}
CondReasons == {machineCreationSucceedReason, machineCreationFailedReason}
CondMessages == {machineCreationSucceedMessage, "fail"}

\* a condition as a caller passes it: the time fields are not set
NewConditions == [Type : CondTypes, Status : CondStatuses, Reason : CondReasons,
                  Message : CondMessages]

NoCondition == [Type |-> "", Status |-> "", Reason |-> "", Message |-> ""]

shouldUpdateConditionAlways(oldCondition, newCondition) == TRUE

shouldUpdateConditionOnStatus(oldCondition, newCondition) ==
    oldCondition.Status # newCondition.Status

shouldUpdateCondition(oldCondition, newCondition) ==
    \/ oldCondition.Status # newCondition.Status
    \/ oldCondition.Reason # newCondition.Reason
    \/ oldCondition.Message # newCondition.Message

\* the index of the first condition of the type, 0 for the nil result
findConditionNever(conditions, conditionType) == 0

findCondition(conditions, conditionType) ==
    IF \E i \in 1..Len(conditions) : conditions[i].Type = conditionType
    THEN CHOOSE i \in 1..Len(conditions) :
            /\ conditions[i].Type = conditionType
            /\ \A j \in 1..(i - 1) : conditions[j].Type # conditionType
    ELSE 0

\* the stored LastTransitionTime after an update of an existing condition
TransitionTimeAlways(currentCondition, newCondition, now) == now

TransitionTime(currentCondition, newCondition, now) ==
    IF currentCondition.Status # newCondition.Status
    THEN now
    ELSE currentCondition.LastTransitionTime

reconcileProviderConditions(conditions, newCondition, now) ==
    LET i == findCondition(conditions, newCondition.Type) IN
    IF i = 0
    THEN Append(conditions,
                [Type |-> newCondition.Type,
                 Status |-> newCondition.Status,
                 Reason |-> newCondition.Reason,
                 Message |-> newCondition.Message,
                 LastTransitionTime |-> now,
                 LastProbeTime |-> now])
    ELSE IF shouldUpdateCondition(conditions[i], newCondition)
         THEN [conditions EXCEPT ![i] =
                  [Type |-> @.Type,
                   Status |-> newCondition.Status,
                   Reason |-> newCondition.Reason,
                   Message |-> newCondition.Message,
                   LastTransitionTime |-> TransitionTime(@, newCondition, now),
                   LastProbeTime |-> now]]
         ELSE conditions

(* --------------------------- compute service --------------------------- *)

AllPoolNames == <<"p1", "p2", "p3", "p4">>

PoolNames == {AllPoolNames[i] : i \in 1..MaxPools}

\* instance states InstancesGet can report
VisibleStates == {"PROVISIONING", "RUNNING", "STOPPING", "TERMINATED"}
\* "absent": no instance; "pending": an insert was accepted and the instance
\* is not yet visible to InstancesGet
InstStates == {"absent", "pending"} \cup VisibleStates

\* network interfaces an instance can come back with
NoNics == <<>>
NicPublic == <<[NetworkIP |-> "10.0.0.15", AccessConfigs |-> <<"35.243.147.143">>]>>
NicChoices == {NoNics, NicPublic}
\* an interface without access config, one with two, and a second interface
NicPrivate == <<[NetworkIP |-> "10.0.0.16", AccessConfigs |-> <<>>]>>
NicTwoConfigs ==
    <<[NetworkIP |-> "10.0.0.17",
       AccessConfigs |-> <<"35.243.147.144", "35.243.147.145">>]>>
FetchedNics ==
    NicChoices \cup {NicPrivate, NicTwoConfigs, NicPrivate \o NicPublic}

Call(c, a, r) == [c |-> c, a |-> a, r |-> r]

NoCalls == <<>>

\* googleapi.Error codes the model distinguishes; "err" is an error that is no
\* googleapi.Error, "ok" no error
isNotFoundErrorNever(r) == FALSE

isNotFoundError(r) == r = "404"

\* strconv.Itoa of a code that is not negative
RECURSIVE Itoa(_)
Itoa(n) ==
    IF n < 10 THEN SubSeq("0123456789", n + 1, n + 1)
    ELSE Itoa(n \div 10) \o SubSeq("0123456789", (n % 10) + 1, (n % 10) + 1)

\* strings.HasPrefix
HasPrefix(s, prefix) ==
    Len(s) >= Len(prefix) /\ SubSeq(s, 1, Len(prefix)) = prefix

\* the answer is a *googleapi.Error; it is then written as Itoa of its Code
IsGoogleError(r) == r \notin {"ok", "err"}

\* strings.HasPrefix(strconv.Itoa(googleError.Code), "4")
Is400Only(r) == r = Itoa(400)

Is4xx(r) == IsGoogleError(r) /\ HasPrefix(r, "4")

\* the answer of InstancesGet: g is what the transport does to the request
InstancesGet(cl, g) ==
    IF g = "err" THEN "err"
    ELSE IF g = "500" THEN "500"
    ELSE IF cl.inst \in VisibleStates THEN cl.inst
    ELSE "404"

\* the answer of InstancesInsert: a second insert of the same name conflicts
InstancesInsert(cl, g) ==
    IF g # "ok" /\ ~Is4xx(g) THEN g
    ELSE IF cl.inst # "absent" THEN "409"
    ELSE g

\* the answer of TargetPoolsGet: the pool's Instances holds the link or not
TargetPoolsGet(cl, pool, g) ==
    IF g = "err" \/ pool = "" THEN "err"
    ELSE IF pool \in cl.members THEN "present"
    ELSE "absent"

(* ------------------------------ Reconciler ----------------------------- *)

\* nil or the InvalidMachineConfiguration it returns
validateMachineLabelOnly(m) ==
    IF ~m.clusterLabel THEN "machine is missing label" ELSE "nil"

validateMachine(m) ==
    IF \E i \in 1..Len(m.targetPools) : m.targetPools[i] = ""
    THEN "all target pools must have valid name"
    ELSE IF ~m.clusterLabel
         THEN "machine is missing label"
         ELSE "nil"

\* the node addresses reconcileMachineWithCloudState derives, as address types
RECURSIVE ExternalAddresses(_)
ExternalAddresses(configs) ==
    IF configs = <<>> THEN <<>>
    ELSE <<[Type |-> "ExternalIP", Address |-> Head(configs)]>>
         \o ExternalAddresses(Tail(configs))

\* m.name, m.zone and m.projectID: the Machine's name, the provider spec's Zone
\* and the project the scope resolved
nodeAddressesNamesFirst(m, networkInterface) ==
    <<[Type |-> "InternalIP", Address |-> networkInterface.NetworkIP]>>
    \o <<[Type |-> "InternalDNS",
          Address |-> m.name \o "." \o m.zone \o ".c." \o m.projectID \o ".internal"],
         [Type |-> "InternalDNS",
          Address |-> m.name \o ".c." \o m.projectID \o ".internal"],
         [Type |-> "InternalDNS", Address |-> m.name]>>
    \o ExternalAddresses(networkInterface.AccessConfigs)

nodeAddresses(m, networkInterface) ==
    <<[Type |-> "InternalIP", Address |-> networkInterface.NetworkIP]>>
    \o ExternalAddresses(networkInterface.AccessConfigs)
    \o <<[Type |-> "InternalDNS",
          Address |-> m.name \o "." \o m.zone \o ".c." \o m.projectID \o ".internal"],
         [Type |-> "InternalDNS",
          Address |-> m.name \o ".c." \o m.projectID \o ".internal"],
         [Type |-> "InternalDNS", Address |-> m.name]>>

\* the provider ID newMachineScope computes: fmt.Sprintf("gce://%s/%s/%s", ...)
providerIDZoneFirst(projectID, zone, name) ==
    "gce://" \o zone \o "/" \o projectID \o "/" \o name

providerID(projectID, zone, name) ==
    "gce://" \o projectID \o "/" \o zone \o "/" \o name

\* what reconcileMachineWithCloudState returns for a fetched instance
cloudStateResultUnlessStopped(instanceStatus) ==
    IF instanceStatus \in {"RUNNING", "PROVISIONING"} THEN "nil" ELSE "requeue"

cloudStateResultNeverDone(instanceStatus) == "requeue"

cloudStateResult(instanceStatus) ==
    IF instanceStatus # "RUNNING" THEN "requeue" ELSE "nil"

\* annotation keys of in-flight cloud operations a Machine may carry
PendingKeys == {"pending-create-operation-id", "pending-delete-operation-id"}

setMachineCloudProviderSpecificsMarking(m, instanceStatus) ==
    [m EXCEPT !.instanceStateAnn = instanceStatus,
              !.labels = TRUE,
              !.pending = @ \cup {"pending-create-operation-id"}]

setMachineCloudProviderSpecifics(m, instanceStatus) ==
    [m EXCEPT !.instanceStateAnn = instanceStatus, !.labels = TRUE]

\* the condition recorded for a fetched instance
succeedConditionUnknown ==
    [Type |-> MachineCreated,
     Reason |-> machineCreationSucceedReason,
     Message |-> machineCreationSucceedMessage,
     Status |-> ConditionUnknown]

succeedCondition ==
    [Type |-> MachineCreated,
     Reason |-> machineCreationSucceedReason,
     Message |-> machineCreationSucceedMessage,
     Status |-> ConditionTrue]

\* failedCondition = NoCondition stands for the nil argument
reconcileMachineWithCloudState(m, st, cl, failedCondition, in, now) ==
    IF failedCondition # NoCondition
    THEN [ret |-> "nil", calls |-> NoCalls, machine |-> m,
          status |-> [st EXCEPT !.Conditions =
                         reconcileProviderConditions(@, failedCondition, now)]]
    ELSE LET r == InstancesGet(cl, in.get) IN
         IF r \notin VisibleStates
         THEN [ret |-> "error", calls |-> <<Call("InstancesGet", "", r)>>,
               machine |-> m, status |-> st]
         ELSE IF Len(in.nics) < 1
         THEN [ret |-> "error", calls |-> <<Call("InstancesGet", "", r)>>,
               machine |-> m, status |-> st]
         ELSE LET m1 == [m EXCEPT
                            !.providerID = providerID(m.projectID, m.zone, m.name),
                            !.addresses = nodeAddresses(m, in.nics[1])]
              IN [ret |-> cloudStateResult(r),
                  calls |-> <<Call("InstancesGet", "", r)>>,
                  machine |-> setMachineCloudProviderSpecifics(m1, r),
                  status |-> [Conditions |->
                                  reconcileProviderConditions(st.Conditions,
                                                              succeedCondition, now),
                              InstanceState |-> r,
                              InstanceID |-> m.name]]

\* the pool's instance list after an accepted add (desired) or remove
ApplyPoolOp(cl, pool, desired) ==
    [cl EXCEPT !.members = IF desired THEN @ \cup {pool} ELSE @ \ {pool}]

\* instanceExistsInPool's result against the desired state
NeedsCallAlways(present, desired) == TRUE

NeedsCallNever(present, desired) == FALSE

NeedsCall(present, desired) == present # desired

\* the loop of processTargetPools from the i-th configured pool on; poolFunc is
\* the compute-service call of the callback
RECURSIVE processTargetPoolsFrom(_, _, _, _, _, _, _)
processTargetPoolsFrom(i, m, cl, desired, poolFunc, in, calls) ==
    IF i > Len(m.targetPools)
    THEN [err |-> FALSE, calls |-> calls, cloud |-> cl]
    ELSE LET pool == m.targetPools[i]
             g == TargetPoolsGet(cl, pool, in.pg[i])
             got == Append(calls, Call("TargetPoolsGet", pool, g))
         IN IF g = "err"
            THEN [err |-> TRUE, calls |-> got, cloud |-> cl]
            ELSE IF NeedsCall(g = "present", desired)
                 THEN IF in.pf[i] = "err"
                      THEN [err |-> TRUE,
                            calls |-> Append(got, Call(poolFunc, pool, "err")),
                            cloud |-> cl]
                      ELSE processTargetPoolsFrom(
                               i + 1, m, ApplyPoolOp(cl, pool, desired),
                               desired, poolFunc, in,
                               Append(got, Call(poolFunc, pool, "ok")))
                 ELSE processTargetPoolsFrom(i + 1, m, cl, desired, poolFunc, in, got)

\* the loop run a second time over the pools
processTargetPoolsTwice(m, cl, desired, poolFunc, in) ==
    LET first == processTargetPoolsFrom(1, m, cl, desired, poolFunc, in, NoCalls)
    IN IF first.err
       THEN first
       ELSE processTargetPoolsFrom(1, m, first.cloud, desired, poolFunc, in,
                                   first.calls)

\* the loop with its error dropped
processTargetPoolsUnchecked(m, cl, desired, poolFunc, in) ==
    [processTargetPoolsFrom(1, m, cl, desired, poolFunc, in, NoCalls)
        EXCEPT !.err = FALSE]

processTargetPools(m, cl, desired, poolFunc, in) ==
    processTargetPoolsFrom(1, m, cl, desired, poolFunc, in, NoCalls)

\* InstancesGet found an instance
FoundAlways(r) == TRUE

FoundUnlessTerminated(r) == r \in VisibleStates \ {"TERMINATED"}

Found(r) == r \in VisibleStates

exists(m, cl, in) ==
    IF validateMachine(m) # "nil"
    THEN [ret |-> "error", calls |-> NoCalls]
    ELSE IF in.zone # "ok"
    THEN [ret |-> IF isNotFoundError(in.zone) THEN "terminal" ELSE "error",
          calls |-> <<Call("ZonesGet", "", in.zone)>>]
    ELSE LET r == InstancesGet(cl, in.get)
             calls == <<Call("ZonesGet", "", "ok"), Call("InstancesGet", "", r)>>
         IN IF Found(r)
            THEN [ret |-> "true", calls |-> calls]
            ELSE IF isNotFoundError(r)
                 THEN [ret |-> "false", calls |-> calls]
                 ELSE [ret |-> "error", calls |-> calls]

\* the outcomes of the accelerator checks of create: the length check of
\* GuestAccelerators, validateGuestAccelerators and checkQuota
AccelOutcomes == {"none", "invalid", "quotaOK", "quotaExceeded"}

validateGuestAccelerators(in) ==
    CASE in.accel = "none" -> [ret |-> "nil", calls |-> NoCalls]
      [] in.accel = "invalid" -> [ret |-> "terminal", calls |-> NoCalls]
      [] in.accel = "quotaOK" ->
            [ret |-> "nil",
             calls |-> <<Call("GPUCompatibleMachineTypesList", "", "ok"),
                         Call("RegionGet", "", "ok"),
                         Call("AcceleratorTypeGet", "", "ok")>>]
      [] in.accel = "quotaExceeded" ->
            [ret |-> "terminal",
             calls |-> <<Call("GPUCompatibleMachineTypesList", "", "ok"),
                         Call("RegionGet", "", "ok"),
                         Call("AcceleratorTypeGet", "", "ok")>>]

\* the submission at the end of create, after the instance is assembled
createInstanceSkippingInsert(m, st, cl, in, now, calls) ==
    LET rec == reconcileMachineWithCloudState(m, st, cl, NoCondition, in, now)
    IN [ret |-> rec.ret, calls |-> calls \o rec.calls, machine |-> rec.machine,
        status |-> rec.status, cloud |-> cl]

createInstance(m, st, cl, in, now, calls) ==
    LET r == InstancesInsert(cl, in.insert)
        ins == Append(calls, Call("InstancesInsert", "", r))
    IN IF r # "ok"
       THEN LET rec == reconcileMachineWithCloudState(
                           m, st, cl,
                           [Type |-> MachineCreated,
                            Reason |-> machineCreationFailedReason,
                            Message |-> r,
                            Status |-> ConditionFalse],
                           in, now)
            IN [ret |-> IF Is4xx(r) THEN "terminal" ELSE "error",
                calls |-> ins, machine |-> rec.machine, status |-> rec.status,
                cloud |-> cl]
       ELSE LET cl1 == [cl EXCEPT !.inst = IF in.lagI THEN "pending"
                                           ELSE IF in.fast THEN "RUNNING"
                                           ELSE "PROVISIONING"]
                rec == reconcileMachineWithCloudState(m, st, cl1, NoCondition, in, now)
            IN [ret |-> rec.ret, calls |-> ins \o rec.calls,
                machine |-> rec.machine, status |-> rec.status,
                cloud |-> cl1]

create(m, st, cl, in, now) ==
    LET stop(ret, calls) == [ret |-> ret, calls |-> calls, machine |-> m,
                             status |-> st, cloud |-> cl]
        acc == validateGuestAccelerators(in)
    IN IF validateMachine(m) # "nil"
       THEN stop("terminal", NoCalls)
       ELSE IF acc.ret # "nil"
       THEN stop(acc.ret, acc.calls)
       ELSE IF in.userData # "ok"
       THEN stop("error", Append(acc.calls, Call("getCustomUserData", "", in.userData)))
       ELSE createInstance(m, st, cl, in, now,
                           Append(acc.calls, Call("getCustomUserData", "", "ok")))

update(m, st, cl, in, now) ==
    IF validateMachine(m) # "nil"
    THEN [ret |-> "terminal", calls |-> NoCalls, machine |-> m, status |-> st,
          cloud |-> cl]
    ELSE LET tp == processTargetPools(m, cl, TRUE, "TargetPoolsAddInstance", in)
         IN IF tp.err
            THEN [ret |-> "error", calls |-> tp.calls, machine |-> m,
                  status |-> st, cloud |-> tp.cloud]
            ELSE LET rec == reconcileMachineWithCloudState(
                                m, st, tp.cloud, NoCondition, in, now)
                 IN [ret |-> rec.ret, calls |-> tp.calls \o rec.calls,
                     machine |-> rec.machine, status |-> rec.status,
                     cloud |-> tp.cloud]

\* what delete() returns once InstancesDelete has accepted the request: the
\* operation the call returned is dropped unread
deleteSubmittedUntilDone(operation) ==
    IF operation = "DONE" THEN "nil" ELSE "requeue"

deleteSubmitted(operation) == "requeue"

\* the delay a result asks the framework to requeue after, in seconds; 0: none
RequeueAfter(ret) == IF ret = "requeue" THEN requeueAfterSeconds ELSE 0

delete(m, cl, in) ==
    LET tp == processTargetPools(m, cl, FALSE, "TargetPoolsRemoveInstance", in)
    IN IF tp.err
       THEN [ret |-> "error", calls |-> tp.calls, cloud |-> tp.cloud]
       ELSE LET ex == exists(m, tp.cloud, in)
                calls == tp.calls \o ex.calls
            IN IF ex.ret \notin {"true", "false"}
               THEN [ret |-> ex.ret, calls |-> calls, cloud |-> tp.cloud]
               ELSE IF ex.ret = "false"
               THEN [ret |-> "nil", calls |-> calls, cloud |-> tp.cloud]
               ELSE IF in.del # "ok"
               THEN [ret |-> "error",
                     calls |-> Append(calls, Call("InstancesDelete", "", in.del)),
                     cloud |-> tp.cloud]
               ELSE [ret |-> deleteSubmitted(in.delOp),
                     calls |-> Append(calls, Call("InstancesDelete", "", "ok")),
                     cloud |-> [tp.cloud EXCEPT !.inst =
                                   IF in.delOp = "DONE" THEN "absent"
                                   ELSE "STOPPING"]]

(* ------------------------ inputs of one handler ------------------------ *)

\* what the environment answers during one handler: the transport's part of
\* each compute-service answer, the secret store, the instance's interfaces,
\* whether an accepted insert is visible at once (lagI) and the instance
\* already running when create looks at it (fast), and the status of the
\* operation an accepted InstancesDelete returns (delOp)
DefaultIn ==
    [zone |-> "ok", get |-> "ok", insert |-> "ok", del |-> "ok", accel |-> "none",
     userData |-> "ok", nics |-> NicPublic,
     pg |-> [i \in 1..MaxPools |-> "ok"], pf |-> [i \in 1..MaxPools |-> "ok"],
     lagI |-> FALSE, fast |-> FALSE, delOp |-> "RUNNING"]

\* what a rejected InstancesInsert answers: the codes of a *googleapi.Error
\* around the bounds of the 4xx class, and an error of another type
InsertErrors == {Itoa(code) : code \in {399, 400, 499, 500}} \cup {"err"}

\* the statuses of the operation a compute-service call returns
OperationStatuses == {"PENDING", "RUNNING", "DONE"}

\* the k-th answer fails, every other one succeeds
FailAt(k) == [i \in 1..MaxPools |-> IF i = k THEN "err" ELSE "ok"]

\* Each set lists the answers a handler can consume: an answer after the one
\* that makes the handler return is never requested, so it stays at its default.

ExistsInputs ==
    {[DefaultIn EXCEPT !.zone = z] : z \in {"404", "err"}}
    \cup {[DefaultIn EXCEPT !.get = g] : g \in {"ok", "500", "err"}}

ReconcileInputs ==
    {[DefaultIn EXCEPT !.get = "err"]}
    \cup {[DefaultIn EXCEPT !.nics = n] : n \in NicChoices}

CreateInputs ==
    {[DefaultIn EXCEPT !.accel = a] : a \in {"invalid", "quotaExceeded"}}
    \cup UNION {
        {[DefaultIn EXCEPT !.accel = a, !.userData = "err"]}
        \cup {[DefaultIn EXCEPT !.accel = a, !.insert = i] : i \in InsertErrors}
        \cup {[in EXCEPT !.accel = a, !.lagI = l[1], !.fast = l[2]] :
                 in \in ReconcileInputs,
                 l \in {<<FALSE, FALSE>>, <<TRUE, FALSE>>, <<FALSE, TRUE>>}}
        : a \in {"none", "quotaOK"}}

PoolInputs ==
    UNION {{[DefaultIn EXCEPT !.pg = FailAt(k)], [DefaultIn EXCEPT !.pf = FailAt(k)]} :
          k \in 1..MaxPools}

UpdateInputs ==
    PoolInputs \cup ReconcileInputs

DeleteInputs ==
    PoolInputs
    \cup {[DefaultIn EXCEPT !.zone = z] : z \in {"404", "err"}}
    \cup {[DefaultIn EXCEPT !.get = g] : g \in {"500", "err"}}
    \cup {[DefaultIn EXCEPT !.del = d] : d \in {"ok", "err"}}
    \cup {[DefaultIn EXCEPT !.delOp = o] : o \in OperationStatuses}

(* ------------------------------- state --------------------------------- *)

\* the configured target pools: distinct pools, or one pool with an empty name
PoolLists == {SubSeq(AllPoolNames, 1, n) : n \in 0..MaxPools} \cup {<<"">>}

Handler(op, ret, calls) == [op |-> op, ret |-> ret, calls |-> calls]

NoStatus == [Conditions |-> <<>>, InstanceState |-> "", InstanceID |-> ""]

NoCloud == [inst |-> "absent", members |-> {}]

\* cached where the handlers run on the scope's Machine itself: no copy is read
Unread == [machine |-> <<>>, status |-> NoStatus]

\* the Machines nothing has reconciled yet
FreshMachines ==
    [clusterLabel : BOOLEAN, targetPools : PoolLists,
     pending : {{}, PendingKeys}, instanceStateAnn : {""},
     labels : {FALSE}, providerID : {""}, addresses : {<<>>},
     deleting : {FALSE}, name : {"name"}, zone : {"zone"},
     projectID : {"project"}]

\* no Machine is being reconciled
MachineIdle ==
    /\ machine = <<>> /\ status = NoStatus /\ cloud = NoCloud /\ clock = 0
    /\ round = <<>> /\ lastNew = NoCondition /\ cached = Unread

\* a Machine as the framework first hands it over: nothing reconciled yet
Init ==
    /\ machine \in FreshMachines
    /\ status = NoStatus
    /\ cloud = NoCloud
    /\ clock = 0
    /\ round = <<>>
    /\ lastNew = NoCondition
    /\ cached = Unread
    /\ CacheIdle /\ HandlerIdle /\ QuotaIdle

\* the handler the framework ran last, if any
Last == round[Len(round)]
Ran(op) == round # <<>> /\ Last.op = op

(* ------------------------------ handlers -------------------------------- *)

\* Actuator.Exists opens every round of a Machine that is not being deleted
Exists ==
    /\ ~machine.deleting
    /\ \E in \in ExistsInputs :
          LET rec == exists(machine, cloud, in)
          IN round' = <<Handler("exists", rec.ret, rec.calls)>>
    /\ UNCHANGED <<machine, status, cloud, clock, lastNew, cached>>
    /\ UNCHANGED <<cacheVars, handlerVars, quotaVars>>

\* the framework calls Create when Exists answered (false, nil)
Create ==
    /\ ~machine.deleting
    /\ Len(round) = 1 /\ Ran("exists") /\ Last.ret = "false"
    /\ \E in \in CreateInputs :
          LET rec == create(machine, status, cloud, in, clock)
          IN /\ round' = Append(round, Handler("create", rec.ret, rec.calls))
             /\ machine' = rec.machine
             /\ status' = rec.status
             /\ cloud' = rec.cloud
    /\ UNCHANGED <<clock, lastNew, cached>>
    /\ UNCHANGED <<cacheVars, handlerVars, quotaVars>>

\* the framework calls Update when Exists answered (true, nil)
Update ==
    /\ ~machine.deleting
    /\ Len(round) = 1 /\ Ran("exists") /\ Last.ret = "true"
    /\ \E in \in UpdateInputs :
          LET rec == update(machine, status, cloud, in, clock)
          IN /\ round' = Append(round, Handler("update", rec.ret, rec.calls))
             /\ machine' = rec.machine
             /\ status' = rec.status
             /\ cloud' = rec.cloud
    /\ UNCHANGED <<clock, lastNew, cached>>
    /\ UNCHANGED <<cacheVars, handlerVars, quotaVars>>

\* the framework calls Delete, and nothing else, once the Machine is being deleted
Delete ==
    /\ machine.deleting
    /\ \E in \in DeleteInputs :
          LET rec == delete(machine, cloud, in)
          IN /\ round' = <<Handler("delete", rec.ret, rec.calls)>>
             /\ cloud' = rec.cloud
    /\ UNCHANGED <<machine, status, clock, lastNew, cached>>
    /\ UNCHANGED <<cacheVars, handlerVars, quotaVars>>

(* ----------------------------- environment ------------------------------ *)

\* a user deletes the Machine object
MarkDeleted ==
    /\ ~machine.deleting
    /\ machine' = [machine EXCEPT !.deleting = TRUE]
    /\ UNCHANGED <<status, cloud, clock, round, lastNew, cached>>
    /\ UNCHANGED <<cacheVars, handlerVars, quotaVars>>

\* the cloud moves the instance on by itself
CloudProgress ==
    /\ \E next \in InstStates :
          /\ \/ cloud.inst = "pending" /\ next = "PROVISIONING"
             \/ cloud.inst = "PROVISIONING" /\ next = "RUNNING"
             \/ cloud.inst = "RUNNING" /\ next = "TERMINATED"
             \/ cloud.inst = "TERMINATED" /\ next = "absent"
             \/ cloud.inst = "STOPPING" /\ next = "absent"
          /\ cloud' = [cloud EXCEPT !.inst = next]
    /\ UNCHANGED <<machine, status, clock, round, lastNew, cached>>
    /\ UNCHANGED <<cacheVars, handlerVars, quotaVars>>

Next ==
    \/ Exists
    \/ Create
    \/ Update
    \/ Delete
    \/ MarkDeleted
    \/ CloudProgress

Spec == Init /\ [][Next]_vars

(* ------------- the framework repeating rounds, with fairness ----------- *)

\* The machine controller reconciles a Machine again and again: exists(), then
\* create() when it answered false and update() when it answered true.  Calls
\* may fail any number of times, and each kind of call succeeds again and
\* again; the cloud brings an accepted instance up and leaves it running.

\* the answers under which a handler meets no failing call
SucceedingExists == {in \in ExistsInputs : in.zone = "ok" /\ in.get = "ok"}

SucceedingCreate ==
    {in \in CreateInputs :
        /\ in.accel \in {"none", "quotaOK"}
        /\ in.userData = "ok" /\ in.insert = "ok" /\ in.get = "ok"
        /\ Len(in.nics) >= 1}

SucceedingUpdate ==
    {in \in UpdateInputs :
        /\ in.get = "ok" /\ Len(in.nics) >= 1
        /\ \A i \in 1..MaxPools : in.pg[i] = "ok" /\ in.pf[i] = "ok"}

InitLive ==
    /\ machine \in {m \in FreshMachines : m.pending = {}}
    /\ status = NoStatus
    /\ cloud = NoCloud
    /\ clock = 0
    /\ round = <<>>
    /\ lastNew = NoCondition
    /\ cached = Unread
    /\ CacheIdle /\ HandlerIdle /\ QuotaIdle

RoundExists(ins) ==
    /\ \E in \in ins :
          LET rec == exists(machine, cloud, in)
          IN round' = <<Handler("exists", rec.ret, rec.calls)>>
    /\ UNCHANGED <<machine, status, cloud, clock, lastNew, cached>>
    /\ UNCHANGED <<cacheVars, handlerVars, quotaVars>>

RoundCreate(ins) ==
    /\ Len(round) = 1 /\ Ran("exists") /\ Last.ret = "false"
    /\ \E in \in ins :
          LET rec == create(machine, status, cloud, in, clock)
          IN /\ round' = Append(round, Handler("create", rec.ret, rec.calls))
             /\ machine' = rec.machine
             /\ status' = rec.status
             /\ cloud' = rec.cloud
    /\ UNCHANGED <<clock, lastNew, cached>>
    /\ UNCHANGED <<cacheVars, handlerVars, quotaVars>>

RoundUpdate(ins) ==
    /\ Len(round) = 1 /\ Ran("exists") /\ Last.ret = "true"
    /\ \E in \in ins :
          LET rec == update(machine, status, cloud, in, clock)
          IN /\ round' = Append(round, Handler("update", rec.ret, rec.calls))
             /\ machine' = rec.machine
             /\ status' = rec.status
             /\ cloud' = rec.cloud
    /\ UNCHANGED <<clock, lastNew, cached>>
    /\ UNCHANGED <<cacheVars, handlerVars, quotaVars>>

ExistsSucceeds == RoundExists(SucceedingExists)
ExistsFails == RoundExists(ExistsInputs \ SucceedingExists)
CreateSucceeds == RoundCreate(SucceedingCreate)
CreateFails == RoundCreate(CreateInputs \ SucceedingCreate)
UpdateSucceeds == RoundUpdate(SucceedingUpdate)
UpdateFails == RoundUpdate(UpdateInputs \ SucceedingUpdate)

\* the cloud brings an accepted instance up
CloudStarts ==
    /\ \E next \in InstStates :
          /\ \/ cloud.inst = "pending" /\ next = "PROVISIONING"
             \/ cloud.inst = "PROVISIONING" /\ next = "RUNNING"
          /\ cloud' = [cloud EXCEPT !.inst = next]
    /\ UNCHANGED <<machine, status, clock, round, lastNew, cached>>
    /\ UNCHANGED <<cacheVars, handlerVars, quotaVars>>

NextLive ==
    \/ ExistsSucceeds
    \/ ExistsFails
    \/ CreateSucceeds
    \/ CreateFails
    \/ UpdateSucceeds
    \/ UpdateFails
    \/ CloudStarts

FairLive ==
    /\ WF_vars(ExistsSucceeds)
    /\ SF_vars(CreateSucceeds)
    /\ SF_vars(UpdateSucceeds)
    /\ WF_vars(CloudStarts)

SpecLive == InitLive /\ [][NextLive]_vars /\ FairLive

(* ------------ the framework repeating delete, with fairness ----------- *)

\* Once the Machine is being deleted the machine controller calls delete()
\* again and again until it returns nil.  Calls may fail any number of times
\* and a delete() without a failing call comes again and again; the cloud
\* removes an instance whose deletion it accepted.

SucceedingDelete ==
    {in \in DeleteInputs :
        /\ in.zone = "ok" /\ in.get = "ok" /\ in.del = "ok"
        /\ \A i \in 1..MaxPools : in.pg[i] = "ok" /\ in.pf[i] = "ok"}

InitLiveDelete ==
    /\ machine \in {m \in FreshMachines : m.pending = {}}
    /\ status = NoStatus
    /\ cloud \in [inst : {"absent", "PROVISIONING", "RUNNING", "TERMINATED"},
                  members : SUBSET PoolNames]
    /\ clock = 0
    /\ round = <<>>
    /\ lastNew = NoCondition
    /\ cached = Unread
    /\ CacheIdle /\ HandlerIdle /\ QuotaIdle

RoundDelete(ins) ==
    /\ machine.deleting
    /\ \E in \in ins :
          LET rec == delete(machine, cloud, in)
          IN /\ round' = <<Handler("delete", rec.ret, rec.calls)>>
             /\ cloud' = rec.cloud
    /\ UNCHANGED <<machine, status, clock, lastNew, cached>>
    /\ UNCHANGED <<cacheVars, handlerVars, quotaVars>>

DeleteSucceeds == RoundDelete(SucceedingDelete)
DeleteFails == RoundDelete(DeleteInputs \ SucceedingDelete)

\* the cloud finishes a deletion it accepted
CloudRemoves ==
    /\ cloud.inst = "STOPPING"
    /\ cloud' = [cloud EXCEPT !.inst = "absent"]
    /\ UNCHANGED <<machine, status, clock, round, lastNew, cached>>
    /\ UNCHANGED <<cacheVars, handlerVars, quotaVars>>

NextLiveDelete ==
    \/ MarkDeleted
    \/ DeleteSucceeds
    \/ DeleteFails
    \/ CloudRemoves

FairLiveDelete ==
    /\ WF_vars(MarkDeleted)
    /\ WF_vars(DeleteSucceeds)
    /\ WF_vars(CloudRemoves)

SpecLiveDelete == InitLiveDelete /\ [][NextLiveDelete]_vars /\ FairLiveDelete

(* --------------- the provider conditions on their own ----------------- *)

\* a condition as stored at time 0
Stored(c) ==
    [Type |-> c.Type, Status |-> c.Status, Reason |-> c.Reason, Message |-> c.Message,
     LastTransitionTime |-> 0, LastProbeTime |-> 0]

\* condition lists holding at most one entry per Type
CondLists ==
    {<<>>}
    \cup {<<Stored(c)>> : c \in NewConditions}
    \cup {<<Stored(p[1]), Stored(p[2])>> :
             p \in {q \in NewConditions \X NewConditions : q[1].Type # q[2].Type}}

InitCond ==
    /\ machine = [clusterLabel |-> TRUE, targetPools |-> <<>>, pending |-> {},
                  instanceStateAnn |-> "", labels |-> FALSE, providerID |-> "",
                  addresses |-> <<>>, deleting |-> FALSE, name |-> "name",
                  zone |-> "zone", projectID |-> "project"]
    /\ status \in [Conditions : CondLists, InstanceState : {""}, InstanceID : {""}]
    /\ cloud \in [inst : {"absent", "RUNNING"}, members : {{}}]
    /\ clock = 0
    /\ round = <<>>
    /\ lastNew = NoCondition
    /\ cached = Unread
    /\ CacheIdle /\ HandlerIdle /\ QuotaIdle

\* metav1.Now() read by a call: later than every time read before
Now == clock + 1

\* one call of reconcileProviderConditions with any new condition
ReconcileConditions ==
    /\ clock < MaxClock
    /\ \E newCondition \in NewConditions :
          /\ status' = [status EXCEPT !.Conditions =
                           reconcileProviderConditions(@, newCondition, Now)]
          /\ lastNew' = newCondition
    /\ clock' = Now
    /\ UNCHANGED <<machine, cloud, round, cached>>
    /\ UNCHANGED <<cacheVars, handlerVars, quotaVars>>

\* one call of reconcileMachineWithCloudState, with or without a failed condition
ReconcileWithCloud ==
    /\ clock < MaxClock
    /\ \E in \in ReconcileInputs, message \in CondMessages, failed \in BOOLEAN :
          LET failedCondition ==
                  IF failed
                  THEN [Type |-> MachineCreated, Reason |-> machineCreationFailedReason,
                        Message |-> message, Status |-> ConditionFalse]
                  ELSE NoCondition
              rec == reconcileMachineWithCloudState(machine, status, cloud,
                                                    failedCondition, in, Now)
          IN /\ machine' = rec.machine
             /\ status' = rec.status
             /\ lastNew' = NoCondition
    /\ clock' = Now
    /\ UNCHANGED <<cloud, round, cached>>
    /\ UNCHANGED <<cacheVars, handlerVars, quotaVars>>

\* time passes between calls
Tick ==
    /\ clock < MaxClock
    /\ clock' = Now
    /\ lastNew' = NoCondition
    /\ UNCHANGED <<machine, status, cloud, round, cached>>
    /\ UNCHANGED <<cacheVars, handlerVars, quotaVars>>

NextCond ==
    \/ ReconcileConditions
    \/ ReconcileWithCloud
    \/ Tick

SpecCond == InitCond /\ [][NextCond]_vars

(* ------------------ the Reconciler methods on their own ---------------- *)

\* a Reconciler built on a scope and one of its methods called, as a caller
\* other than the machine controller may do: no Exists has filtered the Machine
InitMethods ==
    /\ machine \in {m \in FreshMachines : m.pending = {}}
    /\ status = NoStatus
    /\ cloud \in {NoCloud, [inst |-> "RUNNING", members |-> {}]}
    /\ clock = 0
    /\ round = <<>>
    /\ lastNew = NoCondition
    /\ cached = Unread
    /\ CacheIdle /\ HandlerIdle /\ QuotaIdle

MethodCreate ==
    /\ \E in \in {i \in CreateInputs : i.accel = "none"} :
          LET rec == create(machine, status, cloud, in, clock)
          IN /\ round' = <<Handler("create", rec.ret, rec.calls)>>
             /\ machine' = rec.machine
             /\ status' = rec.status
             /\ cloud' = rec.cloud
    /\ UNCHANGED <<clock, lastNew, cached>>
    /\ UNCHANGED <<cacheVars, handlerVars, quotaVars>>

MethodUpdate ==
    /\ \E in \in UpdateInputs :
          LET rec == update(machine, status, cloud, in, clock)
          IN /\ round' = <<Handler("update", rec.ret, rec.calls)>>
             /\ machine' = rec.machine
             /\ status' = rec.status
             /\ cloud' = rec.cloud
    /\ UNCHANGED <<clock, lastNew, cached>>
    /\ UNCHANGED <<cacheVars, handlerVars, quotaVars>>

MethodDelete ==
    /\ \E in \in DeleteInputs :
          LET rec == delete(machine, cloud, in)
          IN /\ round' = <<Handler("delete", rec.ret, rec.calls)>>
             /\ cloud' = rec.cloud
    /\ UNCHANGED <<machine, status, clock, lastNew, cached>>
    /\ UNCHANGED <<cacheVars, handlerVars, quotaVars>>

NextMethods ==
    \/ MethodCreate
    \/ MethodUpdate
    \/ MethodDelete
    \/ CloudProgress

SpecMethods == InitMethods /\ [][NextMethods]_vars

(* ------------- reconcileMachineWithCloudState on its own --------------- *)

\* names, zones and projects a scope can be built for
MachineNames == {"name", "n"}
Zones == {"zone", "z"}
Projects == {"project", "p"}

\* a scope before reconcileMachineWithCloudState ran on it: of any identity,
\* fresh or carrying the provider ID and addresses an earlier call wrote
InitCloudState ==
    /\ machine \in [clusterLabel : {TRUE}, targetPools : {<<>>}, pending : {{}},
                    instanceStateAnn : {""}, labels : {FALSE},
                    providerID : {"", "gce://old/zone/name"},
                    addresses : {<<>>}, deleting : {FALSE},
                    name : MachineNames, zone : Zones, projectID : Projects]
    /\ status = NoStatus
    /\ cloud \in [inst : InstStates, members : {{}}]
    /\ clock = 0
    /\ round = <<>>
    /\ lastNew = NoCondition
    /\ cached = Unread
    /\ CacheIdle /\ HandlerIdle /\ QuotaIdle

\* what one call of reconcileMachineWithCloudState(nil) did: fetched is the
\* NetworkInterfaces of the instance InstancesGet returned, if it returned one
CloudStateCall(rec, nics) ==
    [op |-> "reconcile", ret |-> rec.ret, calls |-> rec.calls, fetched |-> nics]

\* one call of reconcileMachineWithCloudState(nil) on the scope
ReconcileCloudState ==
    /\ \E g \in {"ok", "err"}, nics \in FetchedNics :
          LET in == [DefaultIn EXCEPT !.get = g, !.nics = nics]
              rec == reconcileMachineWithCloudState(machine, status, cloud,
                                                    NoCondition, in, clock)
          IN /\ machine' = rec.machine
             /\ status' = rec.status
             /\ round' = <<CloudStateCall(rec, nics)>>
    /\ UNCHANGED <<cloud, clock, lastNew, cached>>
    /\ UNCHANGED <<cacheVars, handlerVars, quotaVars>>

NextCloudState ==
    \/ ReconcileCloudState
    \/ CloudProgress

SpecCloudState == InitCloudState /\ [][NextCloudState]_vars

(* ------------------- the machine scope and the store ------------------- *)

\* Under SpecActuator the variables machine and status hold the Machine as the
\* API store has it, with the fields the Reconciler never writes: deleting (the
\* deletion timestamp a user sets), phase (a status field of the machine
\* controller), lastUpdated and resourceVersion; cached is the copy the
\* controller hands over.

\* the fields the Patch of the Machine resource carries: metadata and spec
SpecFields == {"clusterLabel", "targetPools", "pending", "instanceStateAnn",
               "labels", "providerID", "deleting"}
\* the fields the Patch of the status subresource carries, beside ProviderStatus
StatusFields == {"addresses", "lastUpdated", "phase"}

\* the object a merge patch computed from (orig, modified) leaves in the store
\* that holds current: only the fields that differ from orig are sent
MergeFromOverwriting(orig, modified, current, fields) ==
    [f \in DOMAIN current |-> IF f \in fields THEN modified[f] ELSE current[f]]

MergeFrom(orig, modified, current, fields) ==
    [f \in DOMAIN current |->
        IF f \in fields /\ modified[f] # orig[f] THEN modified[f] ELSE current[f]]

\* the store gives a changed object the next resourceVersion
Written(before, after, changed) ==
    IF changed THEN [after EXCEPT !.resourceVersion = before.resourceVersion + 1]
    ELSE after

\* an error of scope construction: kind is "nil", "terminal" for an
\* InvalidMachineConfiguration, or "error" for any other error
ScopeError(kind, err) == [kind |-> kind, err |-> err]

\* what the store holds under the name of the credentials Secret: nothing
\* ("notfound"), a Secret without the service_account.json key ("nokey"), a
\* Secret with it ("ok"); "err": the request itself fails
SecretStates == {"ok", "notfound", "nokey", "err"}

\* the error of getCredentialsSecret: for a Secret that is not found, the
\* InvalidMachineConfiguration is built and dropped, and the error of every
\* failed Get is returned
getCredentialsSecret(secret) ==
    CASE secret \in {"notfound", "err"} ->
            ScopeError("error", "error getting credentials secret")
      [] secret = "nokey" ->
            ScopeError("terminal", "secret does not have field set")
      [] OTHER -> ScopeError("nil", "nil")

\* the error of newMachineScope: a.scope is what decoding the provider spec
\* and status fails with, a.key whether the JSON key names its project,
\* a.builder what computeClientBuilder answers
scopeError(obj, a) ==
    IF a.scope # "ok" THEN ScopeError("terminal", a.scope)
    ELSE IF getCredentialsSecret(a.secret).kind # "nil"
    THEN getCredentialsSecret(a.secret)
    ELSE IF obj.machine.projectID = "" /\ a.key # "ok"
    THEN ScopeError("terminal", "error getting project from JSON key")
    ELSE IF a.builder # "ok"
    THEN ScopeError("terminal", "error creating compute service")
    ELSE ScopeError("nil", "nil")

\* the number of computeClientBuilder calls newMachineScope makes
builderCalls(obj, a) ==
    IF /\ a.scope = "ok"
       /\ getCredentialsSecret(a.secret).kind = "nil"
       /\ (obj.machine.projectID = "" => a.key = "ok")
    THEN 1 ELSE 0

\* the Machine of the scope: a provider spec without ProjectID gets the
\* project of the JSON key
resolved(m) == [m EXCEPT !.projectID = IF @ = "" THEN "key-project" ELSE @]

\* obj is the Machine handed to the Actuator
newMachineScope(obj, a) ==
    [err |-> scopeError(obj, a).err,
     kind |-> scopeError(obj, a).kind,
     builderCalls |-> builderCalls(obj, a),
     machine |-> resolved(obj.machine),
     providerStatus |-> obj.status,
     origMachine |-> resolved(obj.machine),
     origProviderStatus |-> obj.status]

setMachineStatusAlways(s, now) == [s EXCEPT !.machine.lastUpdated = now]

setMachineStatusNever(s, now) == s

setMachineStatus(s, now) ==
    IF /\ s.providerStatus = s.origProviderStatus
       /\ s.machine.addresses = s.origMachine.addresses
    THEN s
    ELSE [s EXCEPT !.machine.lastUpdated = now]

StoreWrite(w, r) == [w |-> w, r |-> r]

\* s.machine after the first patch: the store's response, then
\* s.machine.Status = statusCopy
Restored(response, statusCopy) ==
    [f \in DOMAIN response |->
        IF f \in StatusFields THEN statusCopy[f] ELSE response[f]]

\* the end of PatchMachine: both patches were accepted, m2 and st2 are what the
\* status patch leaves of the Machine and of its ProviderStatus
Patched(s, stored1, m2, st2, curS) ==
    [err |-> "nil",
     writes |-> <<StoreWrite("Patch", "ok"), StoreWrite("Status().Patch", "ok")>>,
     machine |-> Written(stored1, m2, m2 # stored1 \/ st2 # curS),
     status |-> st2,
     scope |-> [s EXCEPT !.machine =
                   Written(stored1, m2, m2 # stored1 \/ st2 # curS)]]

\* PatchMachine from the status patch on: stored1 is the Machine the first
\* patch left in the store
PatchStatus(s, stored1, curS, a) ==
    IF a.patchStatus # "ok"
    THEN [err |-> a.patchStatus,
          writes |-> <<StoreWrite("Patch", "ok"),
                       StoreWrite("Status().Patch", a.patchStatus)>>,
          machine |-> stored1, status |-> curS,
          scope |-> [s EXCEPT !.machine = Restored(stored1, s.machine)]]
    ELSE Patched(s, stored1,
                 MergeFrom(s.origMachine, s.machine, stored1, StatusFields),
                 MergeFrom(s.origProviderStatus, s.providerStatus, curS, DOMAIN curS),
                 curS)

\* curM, curS: the Machine and its ProviderStatus in the store when the scope
\* is closed; the result carries the store and the scope after the patches
PatchMachine(s, curM, curS, a) ==
    IF a.patch # "ok"
    THEN [err |-> a.patch, writes |-> <<StoreWrite("Patch", a.patch)>>,
          machine |-> curM, status |-> curS, scope |-> s]
    ELSE PatchStatus(s,
                     Written(curM, MergeFrom(s.origMachine, s.machine, curM, SpecFields),
                             MergeFrom(s.origMachine, s.machine, curM, SpecFields) # curM),
                     curS, a)

\* an error value: the format that wraps cause; NilError is the nil error
Errorf(fmt, action, cause) == [fmt |-> fmt, action |-> action, cause |-> cause]

NilError == Errorf("", "", "nil")

\* the format holds the verb: a '%' directly followed by the verb's letter
HasVerb(fmt, verb) ==
    \E i \in 1..(Len(fmt) - 1) : SubSeq(fmt, i, i + 1) = verb

\* errors.Unwrap: fmt.Errorf keeps the operand of %w, and of no other verb
Unwrap(err) == IF HasVerb(err.fmt, "%w") THEN err.cause ELSE "nil"

\* setMachineStatus, setMachineSpec (the provider spec is re-encoded as it was
\* decoded: no field changes) and PatchMachine, any error wrapped
Close(s, curM, curS, a, now) ==
    [PatchMachine(setMachineStatus(s, now), curM, curS, a) EXCEPT !.err =
        IF @ = "nil" THEN NilError
        ELSE Errorf("[machinescope] failed to patch machine %q in namespace %q: %v",
                    "", @)]

(* -------------------- newMachineScope on its own ----------------------- *)

\* what scope construction can meet
ScopeInputs ==
    [scope : {"ok", "err"}, secret : SecretStates, key : {"ok", "err"},
     builder : {"ok", "err"}]

\* a Machine of any identity, its provider spec with or without ProjectID
InitScope ==
    /\ machine \in [clusterLabel : {TRUE}, targetPools : {<<>>}, pending : {{}},
                    instanceStateAnn : {""}, labels : {FALSE}, providerID : {""},
                    addresses : {<<>>}, deleting : {FALSE},
                    name : MachineNames, zone : Zones,
                    projectID : Projects \cup {""}]
    /\ status = NoStatus
    /\ cloud = NoCloud
    /\ clock = 0
    /\ round = <<>>
    /\ lastNew = NoCondition
    /\ cached = Unread
    /\ CacheIdle /\ HandlerIdle /\ QuotaIdle

\* what one newMachineScope call did on inputs a
ScopeCall(s, a) ==
    [op |-> "scope", in |-> a, err |-> s.err, kind |-> s.kind,
     builderCalls |-> s.builderCalls,
     providerID |-> providerID(s.machine.projectID, s.machine.zone, s.machine.name)]

\* one call of newMachineScope on the Machine
BuildScope ==
    /\ \E a \in ScopeInputs :
          round' = <<ScopeCall(newMachineScope([machine |-> machine,
                                                status |-> status], a), a)>>
    /\ UNCHANGED <<machine, status, cloud, clock, lastNew, cached>>
    /\ UNCHANGED <<cacheVars, handlerVars, quotaVars>>

NextScope == BuildScope

SpecScope == InitScope /\ [][NextScope]_vars

(* ------------------------------- Actuator ------------------------------- *)

scopeFailFmt == "%s: failed to create scope for machine: %w"
reconcilerFailFmt == "%s: reconciler failed to %s machine: %w"
createEventAction == "Create"
updateEventAction == "Update"
deleteEventAction == "Delete"
noEventAction == ""

\* an event as the recorder receives it; the reason of a warning is "Failed"
\* followed by the action
Event(type, reason, message) == [type |-> type, reason |-> reason, message |-> message]

\* the events handleMachineError hands to the recorder; it returns err itself
handleMachineErrorSilent(err, eventAction) == <<>>

handleMachineError(err, eventAction) ==
    IF eventAction # noEventAction
    THEN <<Event("Warning", <<"Failed", eventAction>>, err)>>
    ELSE <<>>

\* what one Actuator call did, before any of it is known: s is its scope
Outcome(op, s) ==
    [op |-> op, ret |-> "scope", calls |-> NoCalls,
     scopeErr |-> s.err,          \* the error of newMachineScope
     reconciler |-> "none",       \* the result of the Reconciler method, if one ran
     closes |-> 0,                \* the number of scope.Close() invocations
     closeErr |-> NilError,       \* what Close returned
     writes |-> <<>>,             \* the calls Close made to the Machine store
     err |-> NilError,            \* the error the call returned
     events |-> <<>>,             \* the events the call handed to the recorder
     scope |-> [machine |-> s.machine, providerStatus |-> s.providerStatus],
     rvBefore |-> s.machine.resourceVersion,
     rvAfter |-> s.machine.resourceVersion]

\* the call returns the wrapped error of newMachineScope
ScopeFailure(op, eventAction, s, curM, curS, cl) ==
    [rec |-> [Outcome(op, s) EXCEPT
                 !.err = Errorf(scopeFailFmt, "", s.err),
                 !.events = handleMachineError(Errorf(scopeFailFmt, "", s.err),
                                               eventAction)],
     machine |-> curM, status |-> curS, cloud |-> cl]

\* the Reconciler method returned r on scope s
Reconciled(op, s, r) ==
    [Outcome(op, s) EXCEPT !.ret = r.ret, !.calls = r.calls, !.reconciler = r.ret]

\* the call returns the wrapped error of the Reconciler method
ReconcilerFailureMasked(rec, eventAction) ==
    [rec EXCEPT
        !.err = IF rec.closeErr # NilError THEN rec.closeErr
                ELSE Errorf(reconcilerFailFmt, eventAction, rec.reconciler),
        !.events = handleMachineError(
                       Errorf(reconcilerFailFmt, eventAction, rec.reconciler),
                       eventAction)]

ReconcilerFailureFlattened(rec, eventAction) ==
    [rec EXCEPT
        !.err = Errorf("%s: reconciler failed to %s machine: %v", eventAction,
                       rec.reconciler),
        !.events = handleMachineError(
                       Errorf("%s: reconciler failed to %s machine: %v", eventAction,
                              rec.reconciler),
                       eventAction)]

ReconcilerFailure(rec, eventAction) ==
    [rec EXCEPT
        !.err = Errorf(reconcilerFailFmt, eventAction, rec.reconciler),
        !.events = handleMachineError(
                       Errorf(reconcilerFailFmt, eventAction, rec.reconciler),
                       eventAction)]

\* scope.Close() returned c
Closed(rec, c) ==
    [rec EXCEPT !.closes = @ + 1, !.closeErr = c.err, !.writes = c.writes,
                !.rvAfter = c.scope.machine.resourceVersion]

\* Create once create() has returned r on scope s and Close has returned c
CreateClosedOnSuccessOnly(s, r, c) ==
    [rec |-> IF r.ret # "nil"
             THEN ReconcilerFailure(Reconciled("create", s, r), createEventAction)
             ELSE [Closed(Reconciled("create", s, r), c) EXCEPT
                      !.err = c.err,
                      !.events = <<Event("Normal", <<createEventAction>>,
                                         "Created Machine")>>],
     machine |-> c.machine, status |-> c.status, cloud |-> r.cloud]

CreateClosed(s, r, c) ==
    [rec |-> IF r.ret # "nil"
             THEN ReconcilerFailure(Closed(Reconciled("create", s, r), c),
                                    createEventAction)
             ELSE [Closed(Reconciled("create", s, r), c) EXCEPT
                      !.err = c.err,
                      !.events = <<Event("Normal", <<createEventAction>>,
                                         "Created Machine")>>],
     machine |-> c.machine, status |-> c.status, cloud |-> r.cloud]

\* Create once the scope is built: s1 is the scope as create() leaves it
CreateReconciled(s1, r, curM, curS, a, now) ==
    CreateClosed(s1, r, Close(s1, curM, curS, a, now))

CreateInScope(s, curM, curS, cl, a, now) ==
    IF s.err # "nil"
    THEN ScopeFailure("create", createEventAction, s, curM, curS, cl)
    ELSE CreateReconciled(
             [s EXCEPT
                 !.machine = create(s.machine, s.providerStatus, cl, a.in, now).machine,
                 !.providerStatus =
                     create(s.machine, s.providerStatus, cl, a.in, now).status],
             create(s.machine, s.providerStatus, cl, a.in, now),
             curM, curS, a, now)

ActuatorCreate(obj, curM, curS, cl, a, now) ==
    CreateInScope(newMachineScope(obj, a), curM, curS, cl, a, now)

\* Exists returns what exists() returned
\* Exists closing its scope like Create and Update
ExistsReconciledClosing(rec) ==
    [rec EXCEPT !.err = IF rec.reconciler \in {"true", "false"} THEN NilError
                        ELSE Errorf("", "", rec.reconciler),
                !.closes = 1]

ExistsReconciled(rec) ==
    [rec EXCEPT !.err = IF rec.reconciler \in {"true", "false"} THEN NilError
                        ELSE Errorf("", "", rec.reconciler)]

ExistsInScope(s, cl, a) ==
    IF s.err # "nil"
    THEN [Outcome("exists", s) EXCEPT !.ret = "error",
                                      !.err = Errorf(scopeFailFmt, "", s.err)]
    ELSE ExistsReconciled(Reconciled("exists", s, exists(s.machine, cl, a.in)))

ActuatorExists(obj, cl, a) == ExistsInScope(newMachineScope(obj, a), cl, a)

\* the event of a successful Update: only if the machine object was modified
Updated(rec) ==
    IF rec.rvBefore # rec.rvAfter
    THEN <<Event("Normal", <<updateEventAction>>, "Updated Machine")>>
    ELSE <<>>

\* Update once update() has returned r on scope s and Close has returned c
UpdateClosed(s, r, c) ==
    [rec |-> IF r.ret # "nil"
             THEN ReconcilerFailure(Closed(Reconciled("update", s, r), c),
                                    updateEventAction)
             ELSE IF c.err # NilError
             THEN [Closed(Reconciled("update", s, r), c) EXCEPT !.err = c.err]
             ELSE [Closed(Reconciled("update", s, r), c) EXCEPT
                      !.events = Updated(Closed(Reconciled("update", s, r), c))],
     machine |-> c.machine, status |-> c.status, cloud |-> r.cloud]

UpdateReconciled(s1, r, curM, curS, a, now) ==
    UpdateClosed(s1, r, Close(s1, curM, curS, a, now))

UpdateInScope(s, curM, curS, cl, a, now) ==
    IF s.err # "nil"
    THEN ScopeFailure("update", updateEventAction, s, curM, curS, cl)
    ELSE UpdateReconciled(
             [s EXCEPT
                 !.machine = update(s.machine, s.providerStatus, cl, a.in, now).machine,
                 !.providerStatus =
                     update(s.machine, s.providerStatus, cl, a.in, now).status],
             update(s.machine, s.providerStatus, cl, a.in, now),
             curM, curS, a, now)

ActuatorUpdate(obj, curM, curS, cl, a, now) ==
    UpdateInScope(newMachineScope(obj, a), curM, curS, cl, a, now)

\* Delete once delete() has returned r: the scope is dropped as it is
DeleteReconciled(s, r, curM, curS) ==
    [rec |-> IF r.ret # "nil"
             THEN ReconcilerFailure(Reconciled("delete", s, r), deleteEventAction)
             ELSE [Reconciled("delete", s, r) EXCEPT
                      !.events = <<Event("Normal", <<deleteEventAction>>,
                                         "Deleted machine")>>],
     machine |-> curM, status |-> curS, cloud |-> r.cloud]

DeleteInScope(s, curM, curS, cl, a) ==
    IF s.err # "nil"
    THEN ScopeFailure("delete", deleteEventAction, s, curM, curS, cl)
    ELSE DeleteReconciled(s, delete(s.machine, cl, a.in), curM, curS)

ActuatorDelete(obj, curM, curS, cl, a) ==
    DeleteInScope(newMachineScope(obj, a), curM, curS, cl, a)

(* ------------- the Actuator, the scope and the Machine store ------------- *)

\* what the store answers to the two patches of one Close
PatchOutcomes == {<<"ok", "ok">>, <<"err", "ok">>, <<"ok", "err">>}

\* the inputs of one Actuator call: scope construction fails, or it succeeds,
\* the Reconciler method meets one of ins and a Close meets one of patches
ActuatorInputs(ins, patches) ==
    {[in |-> DefaultIn, scope |-> "err", secret |-> "ok", key |-> "ok",
      builder |-> "ok", patch |-> "ok", patchStatus |-> "ok"]}
    \cup {[in |-> i, scope |-> "ok", secret |-> "ok", key |-> "ok",
           builder |-> "ok", patch |-> p[1], patchStatus |-> p[2]] :
             i \in ins, p \in patches}

\* the accelerator checks of create come before anything the scope records, and
\* the Actuator sees of a rejected insert only the kind of error create() returns
ActuatorCreateInputs ==
    {in \in CreateInputs : /\ in.accel \in {"none", "invalid"}
                           /\ in.insert \in {"ok", Itoa(400), Itoa(500)}}

\* a Machine as it is first stored
NewMachine(label) ==
    [clusterLabel |-> label, targetPools |-> <<>>, pending |-> {},
     instanceStateAnn |-> "", labels |-> FALSE, providerID |-> "",
     addresses |-> <<>>, deleting |-> FALSE, name |-> "name", zone |-> "zone",
     projectID |-> "project",
     phase |-> "", lastUpdated |-> 0, resourceVersion |-> 1]

\* the Machine of a running instance as an earlier update() left it at time 0
ReconciledMachine ==
    reconcileMachineWithCloudState(NewMachine(TRUE), NoStatus,
                                   [inst |-> "RUNNING", members |-> {}],
                                   NoCondition, DefaultIn, 0)

InitActuator ==
    /\ \/ /\ machine \in {NewMachine(label) : label \in BOOLEAN}
          /\ status = NoStatus
          /\ cloud = NoCloud
       \/ /\ machine = ReconciledMachine.machine
          /\ status = ReconciledMachine.status
          /\ cloud = [inst |-> "RUNNING", members |-> {}]
    /\ clock = 0
    /\ round = <<>>
    /\ lastNew = NoCondition
    /\ cached = [machine |-> machine, status |-> status]
    /\ CacheIdle /\ HandlerIdle /\ QuotaIdle

\* the Machine a reconciliation round starts from: the controller reads it from
\* its informer, which has caught up with the store or still holds what it held
Reads == {cached, [machine |-> machine, status |-> status]}

\* a round of a Machine that is not being deleted opens with Actuator.Exists
CallExists ==
    /\ \E obj \in Reads, a \in ActuatorInputs(ExistsInputs, {<<"ok", "ok">>}) :
          /\ ~obj.machine.deleting
          /\ cached' = obj
          /\ round' = <<ActuatorExists(obj, cloud, a)>>
    /\ UNCHANGED <<machine, status, cloud, clock, lastNew>>
    /\ UNCHANGED <<cacheVars, handlerVars, quotaVars>>

CallCreate ==
    /\ ~cached.machine.deleting
    /\ Ran("exists") /\ Last.ret = "false"
    /\ clock < MaxClock
    /\ \E a \in ActuatorInputs(ActuatorCreateInputs, PatchOutcomes) :
          LET res == ActuatorCreate(cached, machine, status, cloud, a, Now)
          IN /\ round' = <<res.rec>>
             /\ machine' = res.machine
             /\ status' = res.status
             /\ cloud' = res.cloud
    /\ clock' = Now
    /\ UNCHANGED <<lastNew, cached>>
    /\ UNCHANGED <<cacheVars, handlerVars, quotaVars>>

CallUpdate ==
    /\ ~cached.machine.deleting
    /\ Ran("exists") /\ Last.ret = "true"
    /\ clock < MaxClock
    /\ \E a \in ActuatorInputs(UpdateInputs, PatchOutcomes) :
          LET res == ActuatorUpdate(cached, machine, status, cloud, a, Now)
          IN /\ round' = <<res.rec>>
             /\ machine' = res.machine
             /\ status' = res.status
             /\ cloud' = res.cloud
    /\ clock' = Now
    /\ UNCHANGED <<lastNew, cached>>
    /\ UNCHANGED <<cacheVars, handlerVars, quotaVars>>

\* a round of a Machine that is being deleted is one Actuator.Delete
CallDelete ==
    /\ \E obj \in Reads, a \in ActuatorInputs(DeleteInputs, {<<"ok", "ok">>}) :
          LET res == ActuatorDelete(obj, machine, status, cloud, a)
          IN /\ obj.machine.deleting
             /\ cached' = obj
             /\ round' = <<res.rec>>
             /\ machine' = res.machine
             /\ status' = res.status
             /\ cloud' = res.cloud
    /\ UNCHANGED <<clock, lastNew>>
    /\ UNCHANGED <<cacheVars, handlerVars, quotaVars>>

\* between two rounds another client of the store writes a field of its own
OtherWriter ==
    /\ \/ machine.phase = "" /\ machine' = [machine EXCEPT !.phase = "Running",
                                                          !.resourceVersion = @ + 1]
       \/ ~machine.deleting /\ machine' = [machine EXCEPT !.deleting = TRUE,
                                                          !.resourceVersion = @ + 1]
    /\ round' = <<>>
    /\ UNCHANGED <<status, cloud, clock, lastNew, cached>>
    /\ UNCHANGED <<cacheVars, handlerVars, quotaVars>>

NextActuator ==
    \/ CallExists
    \/ CallCreate
    \/ CallUpdate
    \/ CallDelete
    \/ OtherWriter
    \/ CloudProgress

SpecActuator == InitActuator /\ [][NextActuator]_vars

(* ====================== properties of the handlers ====================== *)

\* the handler records of the current round that ran one of ops
Records(ops) == {round[k] : k \in {n \in 1..Len(round) : round[n].op \in ops}}

\* the handler made call c
Made(rec, c) == \E i \in 1..Len(rec.calls) : rec.calls[i].c = c

\* the handler made call c and the compute service answered r
Answered(rec, c, r) == \E i \in 1..Len(rec.calls) : rec.calls[i] = Call(c, "", r)

\* the pools for which the handler made call c
PoolsOf(rec, c) == {rec.calls[i].a : i \in {n \in 1..Len(rec.calls) : rec.calls[n].c = c}}

\* the pools whose TargetPoolsGet answered r to the handler
PoolsAnswered(rec, r) ==
    {rec.calls[i].a : i \in {n \in 1..Len(rec.calls) :
                                 rec.calls[n].c = "TargetPoolsGet" /\ rec.calls[n].r = r}}

C2_InsertAtMostOnce ==
    \A rec \in Records({"create"}) : ~Answered(rec, "InstancesInsert", "409")

C4_DeleteAbsentMakesNoPoolCall ==
    \A rec \in Records({"delete"}) :
        Answered(rec, "InstancesGet", "404") =>
            /\ rec.ret = "nil"
            /\ ~Made(rec, "InstancesDelete")
            /\ ~Made(rec, "TargetPoolsAddInstance")
            /\ ~Made(rec, "TargetPoolsRemoveInstance")

\* C4 amended: delete() on a Machine whose instance is absent returns nil and
\* makes neither an InstancesDelete nor a target-pool add call; before the
\* existence check it calls TargetPoolsRemoveInstance for exactly the
\* configured pools that still list the instance's self-link.
C4_DeleteAbsentOnlyCleansPools ==
    \A rec \in Records({"delete"}) :
        Answered(rec, "InstancesGet", "404") =>
            /\ rec.ret = "nil"
            /\ ~Made(rec, "InstancesDelete")
            /\ ~Made(rec, "TargetPoolsAddInstance")
            /\ PoolsOf(rec, "TargetPoolsRemoveInstance") = PoolsAnswered(rec, "present")

\* delete() found the instance absent after removing its stale pool entry
C4_Witness ==
    /\ Ran("delete")
    /\ Answered(Last, "InstancesGet", "404")
    /\ Made(Last, "TargetPoolsRemoveInstance")

\* C5: exists() for a ProviderSpec whose zone the cloud does not know (ZonesGet
\* answers 404) returns a terminal InvalidMachineConfiguration error, never
\* (false, nil), and does not query the instance.
C5_UnknownZoneIsTerminal ==
    \A rec \in Records({"exists"}) :
        Answered(rec, "ZonesGet", "404") =>
            rec.ret = "terminal" /\ ~Made(rec, "InstancesGet")

\* exists() ran against a zone the cloud does not know
C5_Witness == Ran("exists") /\ Answered(Last, "ZonesGet", "404")

\* C6 as stated: exists() returns false without error for an instance found
\* TERMINATED and true for an instance found in any other state.
C6_TerminatedIsAbsent ==
    \A rec \in Records({"exists"}) :
        \A r \in VisibleStates :
            Answered(rec, "InstancesGet", r) =>
                rec.ret = (IF r = "TERMINATED" THEN "false" ELSE "true")

\* C6 amended: exists() returns true without error for an instance found in
\* any state, TERMINATED included, and false without error only when
\* InstancesGet answers 404.
C6_FoundInAnyStateExists ==
    \A rec \in Records({"exists"}) :
        /\ \A r \in VisibleStates : Answered(rec, "InstancesGet", r) => rec.ret = "true"
        /\ rec.ret = "false" => Answered(rec, "InstancesGet", "404")

\* exists() found the instance TERMINATED
C6_Witness == Ran("exists") /\ Answered(Last, "InstancesGet", "TERMINATED")

\* the callback and the desired state a handler hands to processTargetPools
PoolFuncOf(rec) ==
    IF rec.op = "update" THEN "TargetPoolsAddInstance" ELSE "TargetPoolsRemoveInstance"

DesiredOf(rec) == rec.op = "update"

PoolCalls == {"TargetPoolsGet", "TargetPoolsAddInstance", "TargetPoolsRemoveInstance"}

\* C7: processTargetPools(desired, f) invokes f for a configured pool exactly
\* when the instance's presence in the pool's instance list differs from
\* desired: every answered TargetPoolsGet is followed by f for that pool if and
\* only if the answer differs from desired, f is invoked nowhere else (no add
\* for a listed instance, no remove for an unlisted one), and with no pools
\* configured it makes no call at all.
C7_CallbackOnlyOnDifference ==
    \A rec \in Records({"update", "delete"}) :
        /\ \A i \in 1..Len(rec.calls) :
              /\ (rec.calls[i].c = "TargetPoolsGet" /\ rec.calls[i].r # "err") =>
                    ((/\ i < Len(rec.calls)
                      /\ rec.calls[i + 1].c = PoolFuncOf(rec)
                      /\ rec.calls[i + 1].a = rec.calls[i].a)
                        <=> ((rec.calls[i].r = "present") # DesiredOf(rec)))
              /\ rec.calls[i].c \in PoolCalls \ {"TargetPoolsGet"} =>
                    /\ rec.calls[i].c = PoolFuncOf(rec)
                    /\ i > 1
                    /\ rec.calls[i - 1].c = "TargetPoolsGet"
                    /\ rec.calls[i - 1].a = rec.calls[i].a
        /\ machine.targetPools = <<>> => \A c \in PoolCalls : ~Made(rec, c)

\* one update() found the instance listed in one pool and missing from another
C7_Witness ==
    /\ Ran("update")
    /\ PoolsAnswered(Last, "present") # {}
    /\ PoolsOf(Last, "TargetPoolsAddInstance") # {}

\* the configured target pools
ConfiguredPools == {machine.targetPools[i] : i \in 1..Len(machine.targetPools)}

\* C8: update() calls TargetPoolsAddInstance for exactly the configured pools
\* that do not list the instance's self-link; after an update() whose pool
\* calls all succeeded every configured pool lists it, so a further update()
\* makes no TargetPoolsAddInstance call.
C8_UpdateAddsMissingPools ==
    \A rec \in Records({"update"}) :
        /\ PoolsOf(rec, "TargetPoolsAddInstance") = PoolsAnswered(rec, "absent")
        /\ (/\ PoolsOf(rec, "TargetPoolsGet") = ConfiguredPools
            /\ \A i \in 1..Len(rec.calls) :
                  rec.calls[i].c \in PoolCalls => rec.calls[i].r # "err")
              => ConfiguredPools \subseteq cloud.members
        /\ PoolsAnswered(rec, "present") = ConfiguredPools
              => ~Made(rec, "TargetPoolsAddInstance")

\* an update() of a Machine with pools found every pool listing the instance,
\* as an earlier update() left them, and added it to none
C8_Witness ==
    /\ Ran("update")
    /\ ConfiguredPools # {}
    /\ PoolsAnswered(Last, "present") = ConfiguredPools
    /\ ~Made(Last, "TargetPoolsAddInstance")

(* ====================== properties of the conditions ==================== *)

\* no two entries of a condition list carry the same Type
UniqueTypes(conditions) ==
    \A i, j \in 1..Len(conditions) :
        conditions[i].Type = conditions[j].Type => i = j

\* C9: a conditions list holding at most one entry per Type still holds at
\* most one entry per Type after any sequence of reconcileMachineWithCloudState
\* and reconcileProviderConditions calls.
C9_OneEntryPerType == UniqueTypes(status.Conditions)

\* two calls have been made and every entry of a two-entry list was written by one
C9_Witness ==
    /\ clock >= 2
    /\ Len(status.Conditions) = 2
    /\ \A i \in 1..Len(status.Conditions) : status.Conditions[i].LastProbeTime >= 1

\* C10: reconcileProviderConditions changes an existing condition's
\* LastTransitionTime exactly when the new Status differs from the stored one;
\* with the same Status and another Reason or Message it leaves
\* LastTransitionTime as it was and writes Reason, Message and LastProbeTime.
C10_TransitionTimeFollowsStatus ==
    [][(lastNew' # NoCondition /\ findCondition(status.Conditions, lastNew'.Type) # 0) =>
          LET i == findCondition(status.Conditions, lastNew'.Type)
              old == status.Conditions[i]
              new == status'.Conditions[i]
          IN /\ (new.LastTransitionTime # old.LastTransitionTime)
                    <=> (lastNew'.Status # old.Status)
             /\ (/\ lastNew'.Status = old.Status
                 /\ (lastNew'.Reason # old.Reason \/ lastNew'.Message # old.Message))
                    => /\ new.LastTransitionTime = old.LastTransitionTime
                       /\ new.Reason = lastNew'.Reason
                       /\ new.Message = lastNew'.Message
                       /\ new.LastProbeTime = clock'
      ]_vars

\* the last call rewrote the Reason or Message of a stored condition whose
\* Status it did not change
C10_Witness ==
    /\ lastNew # NoCondition
    /\ \E i \in 1..Len(status.Conditions) :
          /\ status.Conditions[i].Type = lastNew.Type
          /\ status.Conditions[i].Status = lastNew.Status
          /\ status.Conditions[i].LastProbeTime = clock
          /\ status.Conditions[i].LastTransitionTime < clock

\* C11 as stated: every reconcileProviderConditions call for a Type already in
\* the list sets that condition's LastProbeTime to the current time, also when
\* Status, Reason and Message are all unchanged.
C11_ProbeTimeAlwaysRefreshed ==
    lastNew # NoCondition =>
        status.Conditions[findCondition(status.Conditions, lastNew.Type)].LastProbeTime
            = clock

\* C11: a reconcileProviderConditions call for a Type already in the list sets
\* that condition's LastProbeTime to the current time exactly when Status,
\* Reason or Message differs from the stored one; when all three are the same
\* the list, LastProbeTime included, is left as it was.
C11_ProbeTimeFollowsChange ==
    [][(lastNew' # NoCondition /\ findCondition(status.Conditions, lastNew'.Type) # 0) =>
          LET i == findCondition(status.Conditions, lastNew'.Type)
              old == status.Conditions[i]
              new == status'.Conditions[i]
              differs == \/ old.Status # lastNew'.Status
                         \/ old.Reason # lastNew'.Reason
                         \/ old.Message # lastNew'.Message
          IN /\ (new.LastProbeTime = clock') <=> differs
             /\ ~differs => status'.Conditions = status.Conditions
      ]_vars

\* the last call re-evaluated a stored condition with the Status, Reason and
\* Message it already had, and its LastProbeTime is older than the call
C11_Witness ==
    /\ lastNew # NoCondition
    /\ \E i \in 1..Len(status.Conditions) :
          /\ status.Conditions[i].Type = lastNew.Type
          /\ status.Conditions[i].Status = lastNew.Status
          /\ status.Conditions[i].Reason = lastNew.Reason
          /\ status.Conditions[i].Message = lastNew.Message
          /\ status.Conditions[i].LastProbeTime < clock

(* ================ properties of the scope and the Actuator ============== *)

\* the Actuator call the round ended with closed its scope
ClosedScope == round # <<>> /\ Last.closes > 0

\* the scope of call rec, built from obj, holds the ProviderStatus and the
\* Status.Addresses it was constructed with
StatusUntouched(rec, obj) ==
    /\ rec.scope.providerStatus = obj.status
    /\ rec.scope.machine.addresses = obj.machine.addresses

\* the store calls of rec to w
WritesTo(rec, w) == {i \in 1..Len(rec.writes) : rec.writes[i].w = w}

ClosedWell == ClosedScope /\ Last.closeErr = NilError

\* C13 as stated: within Close the Machine status is written to the store
\* before the spec/metadata is written, and when the status write fails the
\* spec write is not attempted.
C13_StatusWrittenBeforeSpec ==
    ClosedScope =>
        /\ \A i \in WritesTo(Last, "Patch"), j \in WritesTo(Last, "Status().Patch") :
              j < i
        /\ (\E j \in WritesTo(Last, "Status().Patch") : Last.writes[j].r # "ok")
              => WritesTo(Last, "Patch") = {}

\* the scope of the call rec built from obj as PatchMachine sends it: after
\* setMachineStatus at time now
Sent(rec, obj, now) ==
    setMachineStatus([machine |-> rec.scope.machine,
                      providerStatus |-> rec.scope.providerStatus,
                      origMachine |-> obj.machine,
                      origProviderStatus |-> obj.status], now)

\* C14: a Create or Update whose Close succeeds leaves the stored
\* Status.LastUpdated at the current time if the scope's ProviderStatus or
\* Status.Addresses differ from their values at scope construction, and at the
\* value the store had before otherwise, which is older than the current time.
C14_LastUpdatedFollowsStatusChange ==
    [][(clock' # clock /\ Last'.closes > 0 /\ Last'.closeErr = NilError) =>
          /\ machine.lastUpdated < clock'
          /\ machine'.lastUpdated = IF StatusUntouched(Last', cached')
                                    THEN machine.lastUpdated
                                    ELSE clock'
      ]_vars

\* a Close that succeeded on a changed status stored the time of the call over
\* an older LastUpdated
C14_Witness ==
    /\ ClosedWell
    /\ ~StatusUntouched(Last, cached)
    /\ machine.lastUpdated = clock
    /\ cached.machine.lastUpdated < clock

\* C15: after a Close that succeeds, every Machine field and every
\* ProviderStatus field the scope holds with the value it was constructed with
\* has in the store the value it had there before Close, so what another writer
\* stored since the scope was constructed stays: Close sends only the
\* difference from the original snapshot.
C15_UnmodifiedFieldsKeepStoreValue ==
    [][(clock' # clock /\ Last'.closes > 0 /\ Last'.closeErr = NilError) =>
          LET s == Sent(Last', cached', clock')
          IN /\ \A f \in SpecFields \cup StatusFields :
                   s.machine[f] = cached'.machine[f] => machine'[f] = machine[f]
             /\ \A f \in DOMAIN status :
                   s.providerStatus[f] = cached'.status[f] => status'[f] = status[f]
      ]_vars

\* a Close that wrote a changed status succeeded on a scope built before
\* another writer set the phase, and the store still has that phase
C15_Witness ==
    /\ ClosedWell
    /\ ~StatusUntouched(Last, cached)
    /\ cached.machine.phase = ""
    /\ machine.phase = "Running"
    /\ machine.lastUpdated = clock

\* the Actuator call the round ended with was op and built its scope
Called(ops) == round # <<>> /\ Last.op \in ops /\ Last.scopeErr = "nil"

\* the Reconciler method of the call the round ended with returned an error
ReconcilerFailed == round # <<>> /\ Last.reconciler \notin {"none", "nil"}

\* the event action of an Actuator operation
EventActionOf(op) ==
    CASE op = "create" -> createEventAction
      [] op = "update" -> updateEventAction
      [] op = "delete" -> deleteEventAction
      [] OTHER -> noEventAction

\* C16 as stated: in every Actuator Create, Update or Delete call in which
\* scope construction succeeds, Close is invoked exactly once before the call
\* returns, whether the Reconciler step succeeded or failed.
C16_EveryCallClosesOnce ==
    Called({"create", "update", "delete"}) => Last.closes = 1

\* C16: in every Actuator Create or Update call in which scope construction
\* succeeds, Close is invoked exactly once before the call returns, whether the
\* Reconciler step succeeded or failed; Delete and Exists never invoke Close.
C16_CreateAndUpdateCloseOnce ==
    /\ Called({"create", "update"}) => Last.closes = 1
    /\ Called({"delete", "exists"}) => Last.closes = 0

\* a Create whose create() failed closed its scope once
C16_Witness ==
    /\ Called({"create"})
    /\ ReconcilerFailed
    /\ Last.closes = 1
    /\ Len(Last.writes) = 2

\* C17 as stated: Close returns a non-nil error whenever one of its store writes
\* fails, and every Actuator call that invokes Close reports that failure to its
\* caller in the error it returns (the Actuator wraps no error of Close, so the
\* error that reports it is the error of Close itself).
C17_CloseFailureReported ==
    ClosedScope =>
        /\ (\E i \in 1..Len(Last.writes) : Last.writes[i].r # "ok")
              => Last.closeErr # NilError
        /\ Last.closeErr # NilError => Last.err = Last.closeErr

\* C18: when the Reconciler step of Create or Update fails and the Close that
\* follows fails too, the error the Actuator returns is the Reconciler's error
\* wrapped in reconcilerFailFmt, not the error of Close.
C18_ReconcilerErrorSurvivesClose ==
    (Called({"create", "update"}) /\ ReconcilerFailed /\ Last.closeErr # NilError)
        => /\ Last.err = Errorf(reconcilerFailFmt, EventActionOf(Last.op),
                                Last.reconciler)
           /\ Last.err # Last.closeErr

\* an Update whose update() failed met a store that rejected the status patch
C18_Witness ==
    /\ Called({"update"})
    /\ ReconcilerFailed
    /\ Len(Last.writes) = 2
    /\ Last.writes[2].r # "ok"
    /\ Last.closeErr # NilError

\* C19 as stated: an Update that returns nil emits the 'Updated Machine' event
\* if and only if the Machine's resource version after Close differs from the
\* one before Close, so an Update that changes nothing adds no event to the one
\* of the Update before it.
C19_UpdatedEventIffModified ==
    [][(clock' # clock /\ Last'.op = "update" /\ Last'.scopeErr = "nil"
            /\ Last'.err = NilError) =>
          ((\E i \in 1..Len(Last'.events) :
               Last'.events[i].reason = <<updateEventAction>>)
             <=> machine'.resourceVersion # machine.resourceVersion)
      ]_vars

\* C20: when scope construction fails, the call returns the error wrapped in
\* scopeFailFmt at once: no Reconciler method runs, no compute-service call is
\* made and Close is not called; Create, Update and Delete hand exactly one
\* warning event Failed<Action> to the recorder and Exists hands none.
C20_ScopeFailureReturnsAtOnce ==
    (round # <<>> /\ Last.scopeErr # "nil") =>
        /\ Last.err = Errorf(scopeFailFmt, "", Last.scopeErr)
        /\ Last.reconciler = "none"
        /\ Last.calls = NoCalls
        /\ Last.closes = 0 /\ Last.writes = <<>>
        /\ Last.op \in {"create", "update", "delete"} =>
              /\ Len(Last.events) = 1
              /\ Last.events[1].type = "Warning"
              /\ Last.events[1].reason = <<"Failed", EventActionOf(Last.op)>>
              /\ Last.events[1].message = Last.err
        /\ Last.op = "exists" => Last.events = <<>>

\* a Delete could not build its scope
C20_Witness ==
    /\ round # <<>>
    /\ Last.op = "delete"
    /\ Last.scopeErr # "nil"
    /\ Len(Last.events) = 1

\* C21: when the Reconciler method of Create, Update or Delete returns an
\* error e, a RequeueAfterError included, the Actuator hands exactly one warning
\* event Failed<Action> to the recorder whose message is the text of the error
\* it returns, and it returns a non-nil error that unwraps to e itself.
C21_ReconcilerErrorPropagated ==
    (Called({"create", "update", "delete"}) /\ ReconcilerFailed) =>
        /\ Len(Last.events) = 1
        /\ Last.events[1].type = "Warning"
        /\ Last.events[1].reason = <<"Failed", EventActionOf(Last.op)>>
        /\ Last.events[1].message = Last.err
        /\ Last.err # NilError
        /\ Last.err.cause = Last.reconciler
        /\ Unwrap(Last.err) = Last.reconciler
        /\ Last.ret = Last.reconciler

\* a Delete whose delete() asked for a requeue
C21_Witness ==
    /\ Called({"delete"})
    /\ Last.reconciler = "requeue"
    /\ Len(Last.events) = 1
    /\ Unwrap(Last.err) = "requeue"

\* C22 as stated: each Create call hands exactly one event to the recorder: the
\* normal 'Created Machine' event if and only if the call returns nil, and one
\* FailedCreate warning event otherwise.
C22_CreatedEventIffNil ==
    (round # <<>> /\ Last.op = "create") =>
        /\ Len(Last.events) = 1
        /\ Last.events[1].type = "Normal" <=> Last.err = NilError
        /\ Last.events[1].type = "Normal" =>
              Last.events[1].reason = <<createEventAction>>
        /\ Last.events[1].type # "Normal" =>
              /\ Last.events[1].type = "Warning"
              /\ Last.events[1].reason = <<"Failed", createEventAction>>

\* C23: when exists() reports the instance present and InstancesDelete accepts
\* the request, delete() returns a RequeueAfterError of 20 seconds, and not nil,
\* whatever the status of the operation InstancesDelete returned.
C23_DeleteSubmittedRequeues ==
    (Ran("delete") /\ Answered(Last, "InstancesDelete", "ok")) =>
        /\ Last.ret = "requeue"
        /\ RequeueAfter(Last.ret) = 20
        /\ Answered(Last, "InstancesGet", "RUNNING")
           \/ Answered(Last, "InstancesGet", "PROVISIONING")
           \/ Answered(Last, "InstancesGet", "STOPPING")
           \/ Answered(Last, "InstancesGet", "TERMINATED")

\* a delete() whose InstancesDelete came back with a finished operation: the
\* instance is gone when delete() returns
C23_Witness ==
    /\ Ran("delete")
    /\ Answered(Last, "InstancesDelete", "ok")
    /\ Answered(Last, "InstancesGet", "RUNNING")
    /\ cloud.inst = "absent"
    /\ Last.ret = "requeue"

(* ======== properties of reconcileMachineWithCloudState on its own ======== *)

\* the call the round ended with fetched an instance: its status
FetchedStatus == Last.calls[1].r

\* the call the round ended with fetched an instance with a network interface
FetchedWithInterface ==
    /\ round # <<>> /\ Last.op = "reconcile"
    /\ FetchedStatus \in VisibleStates
    /\ Len(Last.fetched) >= 1

\* C24: reconcileMachineWithCloudState(nil) returns nil if and only if the
\* fetched instance has a network interface and its status is RUNNING; for a
\* fetched instance with a network interface in any other status it returns a
\* RequeueAfterError of 20 seconds, and no other error, after it has written
\* the addresses, the provider ID and the instance state into the scope.
C24_NilOnlyWhenRunning ==
    (round # <<>> /\ Last.op = "reconcile") =>
        /\ Last.ret = "nil" <=> (FetchedWithInterface /\ FetchedStatus = "RUNNING")
        /\ (FetchedWithInterface /\ FetchedStatus # "RUNNING") =>
              /\ Last.ret = "requeue"
              /\ RequeueAfter(Last.ret) = 20
              /\ machine.addresses # <<>>
              /\ machine.providerID = providerID(machine.projectID, machine.zone,
                                                 machine.name)
              /\ status.InstanceState = FetchedStatus
              /\ machine.instanceStateAnn = FetchedStatus

\* an instance fetched while it is being provisioned
C24_Witness ==
    /\ FetchedWithInterface
    /\ FetchedStatus = "PROVISIONING"
    /\ Last.ret = "requeue"
    /\ status.InstanceState = "PROVISIONING"

\* C28: after reconcileMachineWithCloudState(nil) fetched an instance with at
\* least one network interface, Status.Addresses holds, in this order, the
\* InternalIP of the first interface, one ExternalIP per access config of the
\* first interface, and the three InternalDNS names <name>.<zone>.c.<project>
\* .internal, <name>.c.<project>.internal and <name>; an instance without
\* network interface yields an error and leaves the addresses alone.
C28_AddressesInOrder ==
    [][(round' # <<>> /\ Last'.op = "reconcile" /\ round' # round
            /\ Last'.calls[1].r \in VisibleStates) =>
          IF Len(Last'.fetched) < 1
          THEN Last'.ret = "error" /\ machine'.addresses = machine.addresses
          ELSE LET nic == Last'.fetched[1]
                   k == Len(nic.AccessConfigs)
                   a == machine'.addresses
               IN /\ Len(a) = k + 4
                  /\ a[1] = [Type |-> "InternalIP", Address |-> nic.NetworkIP]
                  /\ \A i \in 1..k :
                        a[1 + i] = [Type |-> "ExternalIP",
                                    Address |-> nic.AccessConfigs[i]]
                  /\ \A i \in (k + 2)..(k + 4) : a[i].Type = "InternalDNS"
                  /\ (machine.name = "n" /\ machine.zone = "z"
                         /\ machine.projectID = "p") =>
                        /\ a[k + 2].Address = "n.z.c.p.internal"
                        /\ a[k + 3].Address = "n.c.p.internal"
                        /\ a[k + 4].Address = "n"
                  /\ a[k + 4].Address = machine.name
      ]_vars

\* the first interface of the fetched instance has two access configs
C28_Witness ==
    /\ FetchedWithInterface
    /\ Last.fetched = NicTwoConfigs
    /\ Len(machine.addresses) = 6
    /\ machine.name = "n"

\* C29: the provider ID is gce://<project>/<zone>/<machine name>, whatever the
\* scope held before; whenever reconcileMachineWithCloudState(nil) fetches an
\* instance with a network interface it writes this value to Spec.ProviderID,
\* the instance's status to ProviderStatus.InstanceState and the instance's
\* name to ProviderStatus.InstanceID.
C29_ProviderIDIsPure ==
    FetchedWithInterface =>
        /\ machine.providerID =
              "gce://" \o machine.projectID \o "/" \o machine.zone \o "/"
                       \o machine.name
        /\ (machine.name = "n" /\ machine.zone = "z" /\ machine.projectID = "p")
              => machine.providerID = "gce://p/z/n"
        /\ status.InstanceState = FetchedStatus
        /\ status.InstanceID = machine.name

\* a scope that carried another provider ID got the one of its own identity
C29_Witness ==
    /\ FetchedWithInterface
    /\ machine.providerID = "gce://p/z/n"
    /\ status.InstanceID = "n"

(* ================= properties of create(), update(), delete() ================ *)

\* the create() the round ended with had its InstancesInsert rejected
InsertRejected ==
    /\ Ran("create")
    /\ Last.calls # NoCalls
    /\ Last.calls[Len(Last.calls)].c = "InstancesInsert"
    /\ Last.calls[Len(Last.calls)].r # "ok"

\* the error InstancesInsert returned to that create()
InsertError == Last.calls[Len(Last.calls)].r

\* C25: when InstancesInsert returns an error, create() leaves the
\* MachineCreated condition with Status False, Reason MachineCreationFailed and
\* the error text as Message, and returns a non-nil error.
C25_InsertFailureSetsCondition ==
    InsertRejected =>
        /\ Last.ret \in {"terminal", "error"}
        /\ \E i \in 1..Len(status.Conditions) :
              /\ status.Conditions[i].Type = "MachineCreated"
              /\ status.Conditions[i].Status = "False"
              /\ status.Conditions[i].Reason = "MachineCreationFailed"
              /\ status.Conditions[i].Message = InsertError
              /\ \A j \in 1..Len(status.Conditions) :
                    status.Conditions[j].Type = "MachineCreated" => j = i

\* a create() whose InstancesInsert was rejected with the code 500
C25_Witness ==
    /\ InsertRejected
    /\ InsertError = "500"
    /\ \E i \in 1..Len(status.Conditions) :
          /\ status.Conditions[i].Message = "500"
          /\ status.Conditions[i].Status = "False"

\* C26: create() returns an InstancesInsert error as a terminal
\* InvalidMachineConfiguration if and only if it is a googleapi error whose
\* code lies in 400..499; every other insert error, of another code or of
\* another type, comes back as an ordinary error.
C26_TerminalIffClientError ==
    InsertRejected =>
        /\ Last.ret = "terminal" <=>
              \E code \in 400..499 : InsertError = Itoa(code)
        /\ Last.ret # "terminal" => Last.ret = "error"

\* an insert rejected with the last code of the 4xx class
C26_Witness ==
    /\ InsertRejected
    /\ InsertError = Itoa(499)
    /\ Last.ret = "terminal"

\* validation has something to reject in the Machine: the cluster-ID label is
\* missing or empty, or a configured target pool has an empty name
Invalid(m) ==
    \/ ~m.clusterLabel
    \/ \E i \in 1..Len(m.targetPools) : m.targetPools[i] = ""

\* C27 as stated: create(), update() and delete() each run validation before
\* any compute-service call: on a Machine whose cluster-ID label is missing or
\* empty, or one of whose target pools has an empty name, they return an
\* InvalidMachineConfiguration error and have made no compute-service call.
C27_ValidationBeforeAnyCall ==
    (round # <<>> /\ Last.op \in {"create", "update", "delete"} /\ Invalid(machine))
        => (Last.ret = "terminal" /\ Last.calls = NoCalls)

\* C27: create() and update() run validation before any compute-service call:
\* on such a Machine they return an InvalidMachineConfiguration error and have
\* made no compute-service call. delete() does not validate first: it cleans
\* the target pools, and the validation inside exists() then fails it with an
\* ordinary error, after target-pool calls only.
C27_CreateAndUpdateValidateFirst ==
    (round # <<>> /\ Invalid(machine)) =>
        /\ Last.op \in {"create", "update"} =>
              (Last.ret = "terminal" /\ Last.calls = NoCalls)
        /\ Last.op = "delete" =>
              /\ Last.ret = "error"
              /\ \A i \in 1..Len(Last.calls) : Last.calls[i].c \in PoolCalls

\* an update() on a Machine without cluster-ID label whose instance runs
C27_Witness ==
    /\ Ran("update")
    /\ ~machine.clusterLabel
    /\ machine.targetPools # <<>>
    /\ cloud.inst = "RUNNING"
    /\ Last.ret = "terminal"

(* ===================== properties of newMachineScope ===================== *)

\* the newMachineScope call the round ended with decoded the Machine and then
\* met the credentials Secret in the state secret
MetSecret(secret) ==
    /\ round # <<>> /\ Last.op = "scope"
    /\ Last.in.scope = "ok"
    /\ Last.in.secret = secret

\* C30 as stated: scope construction returns a terminal
\* InvalidMachineConfiguration both when the credentials Secret does not exist
\* and when it lacks the service_account.json key, and in neither case is a
\* compute service built.
C30_MissingCredentialsAreTerminal ==
    (MetSecret("notfound") \/ MetSecret("nokey")) =>
        /\ Last.kind = "terminal"
        /\ Last.builderCalls = 0

(* ---------------------------- claim C31 -------------------------------- *)

\* the provider status holds a MachineCreated condition with Status True
CreatedTrue(st) ==
    \E i \in 1..Len(st.Conditions) :
        /\ st.Conditions[i].Type = MachineCreated
        /\ st.Conditions[i].Status = ConditionTrue

\* this step is a create() of the Reconciler
CreateStep ==
    /\ Len(round) = 1
    /\ Len(round') = 2
    /\ round'[2].op = "create"

\* C31 as stated: a create() that returns requeue-after, the instance not yet
\* running, has recorded no MachineCreated condition with Status True.
C31_NoSuccessBeforeRunning ==
    (Ran("create") /\ Last.ret = "requeue") => ~CreatedTrue(status)

\* C31 amended: a create() that fetches the inserted instance with a network
\* interface records MachineCreated True whatever the instance's status, so a
\* create() that returns requeue-after (instance not RUNNING) has already
\* recorded it and one that returns nil has recorded it with the instance
\* RUNNING; a create() that returns an error records no success condition.
C31_SuccessRecordedOnFetch ==
    [][CreateStep =>
        /\ round'[2].ret \in {"nil", "requeue"} => CreatedTrue(status')
        /\ round'[2].ret = "requeue" => status'.InstanceState # "RUNNING"
        /\ round'[2].ret = "nil" => status'.InstanceState = "RUNNING"
        /\ round'[2].ret \notin {"nil", "requeue"} =>
              (CreatedTrue(status') => CreatedTrue(status))]_vars

C31_Witness ==
    /\ Ran("create")
    /\ Last.ret = "requeue"
    /\ CreatedTrue(status)
    /\ status.InstanceState = "PROVISIONING"

(* ---------------------------- claim C32 -------------------------------- *)

\* update() has returned nil with the Machine brought up to the cloud's state
CreatePathDone ==
    /\ Ran("update")
    /\ Last.ret = "nil"
    /\ status.InstanceState = "RUNNING"
    /\ CreatedTrue(status)
    /\ machine.providerID # ""

\* C32 as stated: whatever the Machine, when each call succeeds again and
\* again and the cloud brings the inserted instance to RUNNING, the repeated
\* rounds eventually obtain nil from update() with InstanceState RUNNING,
\* MachineCreated True and the provider ID set.
C32_CreatePathCompletes == <>CreatePathDone

\* C32 amended: the same for a Machine that passes validateMachine (cluster
\* label present, no target pool with an empty name).
C32_ValidCreatePathCompletes ==
    (validateMachine(machine) = "nil") ~> CreatePathDone

C32_Witness ==
    /\ CreatePathDone
    /\ cloud.inst = "RUNNING"
    /\ validateMachine(machine) = "nil"

(* ---------------------------- claim C33 -------------------------------- *)

\* the last delete() found the instance
DeleteFound ==
    \E r \in VisibleStates : Answered(Last, "InstancesGet", r)

\* delete() has returned nil
DeletePathDone == Ran("delete") /\ Last.ret = "nil"

\* C33 as stated: whatever the Machine, when calls succeed again and again and
\* the cloud removes the instance whose deletion it accepted, every delete()
\* that finds the instance and submits InstancesDelete returns
\* RequeueAfterError, and eventually a delete() returns nil.
C33_DeletePathCompletes ==
    /\ []((Ran("delete") /\ DeleteFound /\ Answered(Last, "InstancesDelete", "ok"))
             => Last.ret = "requeue")
    /\ <>DeletePathDone

\* C33 amended: the same for a Machine that passes validateMachine; nil is
\* returned only by a delete() whose exists() did not find the instance.
C33_ValidDeletePathCompletes ==
    /\ []((Ran("delete") /\ DeleteFound /\ Answered(Last, "InstancesDelete", "ok"))
             => Last.ret = "requeue")
    /\ [](DeletePathDone => Answered(Last, "InstancesGet", "404"))
    /\ (validateMachine(machine) = "nil") ~> DeletePathDone

\* delete() returned nil after the cloud removed a stopping instance
C33_Witness ==
    /\ DeletePathDone
    /\ validateMachine(machine) = "nil"
    /\ cloud.inst = "absent"
    /\ Len(machine.targetPools) = MaxPools

(* ---------------------------- claim C34 -------------------------------- *)

\* the compute-service calls about target pools, and the other ones
PoolCallNames ==
    {"TargetPoolsGet", "TargetPoolsAddInstance", "TargetPoolsRemoveInstance"}

ComputeCallNames ==
    PoolCallNames
    \cup {"ZonesGet", "InstancesGet", "InstancesInsert", "InstancesDelete",
          "GPUCompatibleMachineTypesList", "RegionGet", "AcceleratorTypeGet"}

\* how many of the handler's calls bear one of the names
CallCount(rec, names) ==
    Cardinality({i \in 1..Len(rec.calls) : rec.calls[i].c \in names})

\* the compute-service calls a handler makes besides the ones about pools
OtherCallsBound(op) ==
    CASE op = "exists" -> 2
      [] op = "create" -> 5
      [] op = "update" -> 1
      [] op = "delete" -> 3

\* C34: every create/update/delete/exists of the Reconciler returns after a
\* bounded number of compute-service calls: at most two per configured target
\* pool (one TargetPoolsGet, one add or remove) and at most five others (two
\* for exists, five for create, one for update, three for delete), no call
\* repeated within the invocation; it returns one of nil, an error or
\* RequeueAfterError, and work in progress (a fetched instance that is not
\* RUNNING, a submitted delete) comes back as RequeueAfterError.
C34_BoundedCallsPerInvocation ==
    \A k \in 1..Len(round) :
        /\ round[k].op \in {"exists", "create", "update", "delete"}
        /\ round[k].ret \in {"true", "false", "nil", "requeue", "error", "terminal"}
        /\ CallCount(round[k], PoolCallNames) <= 2 * Len(machine.targetPools)
        /\ CallCount(round[k], ComputeCallNames \ PoolCallNames)
              <= OtherCallsBound(round[k].op)
        /\ \A c \in ComputeCallNames, pool \in PoolNames \cup {""} :
              Cardinality({i \in 1..Len(round[k].calls) :
                              /\ round[k].calls[i].c = c
                              /\ round[k].calls[i].a = pool}) <= 1
        /\ (round[k].op = "delete" /\ Answered(round[k], "InstancesDelete", "ok"))
              => round[k].ret = "requeue"
        /\ (round[k].op \in {"create", "update"}
            /\ \E r \in VisibleStates \ {"RUNNING"} :
                  Answered(round[k], "InstancesGet", r))
              => round[k].ret \in {"requeue", "error"}

\* a delete() that reaches the bound: every configured pool read and left,
\* the zone and the instance read, the deletion submitted
C34_Witness ==
    /\ Ran("delete")
    /\ Len(machine.targetPools) = MaxPools
    /\ CallCount(Last, PoolCallNames) = 2 * MaxPools
    /\ CallCount(Last, ComputeCallNames \ PoolCallNames) = 3
    /\ Last.ret = "requeue"

(* ============ the machine-types cache of the MachineSet controller ======= *)

\* the reconciles of the MachineSet controller that run at the same time
Goroutines == {"g1", "g2"}

MachineTypes == {"n1-standard-1"}
Services == {"gce1", "gce2"}

\* machineTypeKey{zone, machineType}
machineTypeKey(zone, machineType) == <<zone, machineType>>

CacheKeys == {machineTypeKey(z, t) : z \in Zones, t \in MachineTypes}

\* the nil *gce.MachineType
NoType == [name |-> "", zone |-> "", project |-> "", by |-> ""]

\* what a compute service answers for a machine type of a project and zone
MachineTypesGet(gcpService, projectID, zone, machineType) ==
    [name |-> machineType, zone |-> zone, project |-> projectID, by |-> gcpService]

\* the arguments of a call: two MachineSets of different projects, each with
\* the service built from its credentials, in one zone, and one of them in
\* the other zone too
CacheArgs ==
    {a \in [gcpService : Services, projectID : Projects, zone : Zones,
            machineType : MachineTypes] :
        /\ a.gcpService = "gce1" <=> a.projectID = "project"
        /\ a.zone = "z" => a.gcpService = "gce1"}

NoArgs == [gcpService |-> "", projectID |-> "", zone |-> "", machineType |-> ""]

NoResult == [mt |-> NoType, err |-> ""]

KeyOf(args) == machineTypeKey(args.zone, args.machineType)

\* sync.Mutex: Lock returns when no goroutine holds the mutex
UnlockedAlways(m) == TRUE

Unlocked(m) == m.cacheMutex = ""

\* the map lookup's ok
cacheHitNever(m, key) == FALSE

cacheHit(m, key) == m.machineTypesCache[key] # NoType

InitCache ==
    /\ mc = [cacheMutex |-> "", machineTypesCache |-> [k \in CacheKeys |-> NoType]]
    /\ callers = [g \in Goroutines |->
                     [pc |-> "idle", n |-> 0, args |-> NoArgs, mt |-> NoType,
                      ret |-> NoResult]]
    /\ fetches = <<>>
    /\ MachineIdle /\ HandlerIdle /\ QuotaIdle

\* Reconciler.reconcile calls getMachineTypeFromCache
CacheCall(g) ==
    /\ callers[g].pc = "idle"
    /\ callers[g].n < MaxCalls
    /\ \E args \in CacheArgs :
          callers' = [callers EXCEPT ![g] =
                         [pc |-> "Lock", n |-> @.n + 1, args |-> args, mt |-> NoType,
                          ret |-> NoResult]]
    /\ UNCHANGED <<mc, fetches>>
    /\ UNCHANGED <<machineVars, handlerVars, quotaVars>>

\* mc.cacheMutex.Lock()
CacheLock(g) ==
    /\ callers[g].pc = "Lock"
    /\ Unlocked(mc)
    /\ mc' = [mc EXCEPT !.cacheMutex = g]
    /\ callers' = [callers EXCEPT ![g].pc = "lookup"]
    /\ UNCHANGED fetches
    /\ UNCHANGED <<machineVars, handlerVars, quotaVars>>

\* the read of the map: a hit returns the stored machine type
CacheLookup(g) ==
    /\ callers[g].pc = "lookup"
    /\ callers' = [callers EXCEPT ![g] =
                      IF cacheHit(mc, KeyOf(callers[g].args))
                      THEN [@ EXCEPT !.pc = "Unlock",
                                     !.ret = [mt |-> mc.machineTypesCache[
                                                         KeyOf(callers[g].args)],
                                              err |-> "nil"]]
                      ELSE [@ EXCEPT !.pc = "MachineTypesGet"]]
    /\ UNCHANGED <<mc, fetches>>
    /\ UNCHANGED <<machineVars, handlerVars, quotaVars>>

\* gcpService.MachineTypesGet and the handling of its error: any error but
\* 404 is returned, a 404 returns no machine type and no error
CacheFetch(g) ==
    /\ callers[g].pc = "MachineTypesGet"
    /\ \E r \in {"ok", "404", "err"} :
          /\ fetches' = Append(fetches,
                               [args |-> callers[g].args, r |-> r,
                                stored |-> mc.machineTypesCache[KeyOf(callers[g].args)]
                                               # NoType])
          /\ callers' = [callers EXCEPT ![g] =
                IF r = "ok"
                THEN [@ EXCEPT !.pc = "store",
                               !.mt = MachineTypesGet(callers[g].args.gcpService,
                                                      callers[g].args.projectID,
                                                      callers[g].args.zone,
                                                      callers[g].args.machineType)]
                ELSE [@ EXCEPT !.pc = "Unlock",
                               !.ret = [mt |-> NoType,
                                        err |-> IF isNotFoundError(r) THEN "nil"
                                                ELSE "error"]]]
    /\ UNCHANGED mc
    /\ UNCHANGED <<machineVars, handlerVars, quotaVars>>

\* the write of the map
CacheStore(g) ==
    /\ callers[g].pc = "store"
    /\ mc' = [mc EXCEPT !.machineTypesCache[KeyOf(callers[g].args)] = callers[g].mt]
    /\ callers' = [callers EXCEPT ![g] =
                      [@ EXCEPT !.pc = "Unlock",
                                !.ret = [mt |-> callers[g].mt, err |-> "nil"]]]
    /\ UNCHANGED fetches
    /\ UNCHANGED <<machineVars, handlerVars, quotaVars>>

\* the deferred mc.cacheMutex.Unlock() and the return
CacheUnlock(g) ==
    /\ callers[g].pc = "Unlock"
    /\ mc' = [mc EXCEPT !.cacheMutex = ""]
    /\ callers' = [callers EXCEPT ![g].pc = "idle"]
    /\ UNCHANGED fetches
    /\ UNCHANGED <<machineVars, handlerVars, quotaVars>>

NextCache ==
    \E g \in Goroutines :
        \/ CacheCall(g)
        \/ CacheLock(g)
        \/ CacheLookup(g)
        \/ CacheFetch(g)
        \/ CacheStore(g)
        \/ CacheUnlock(g)

SpecCache == InitCache /\ [][NextCache]_vars

(* ------------------------ claims C35 and C36 ---------------------------- *)

\* the positions between Lock and Unlock, where the map is read and written
InsideLock == {"lookup", "MachineTypesGet", "store", "Unlock"}

\* the successful MachineTypesGet calls made for a key
FetchedOK(key) ==
    {i \in 1..Len(fetches) : KeyOf(fetches[i].args) = key /\ fetches[i].r = "ok"}

\* the goroutine has returned from a call with a machine type
Returned(g) ==
    /\ callers[g].pc = "idle"
    /\ callers[g].ret.err = "nil"
    /\ callers[g].ret.mt # NoType

\* C35: whatever the interleaving of the callers, a goroutine reads or writes
\* the map only while it holds the mutex, which one goroutine holds at a time;
\* no MachineTypesGet is made for a key the map already holds, so a key sees
\* at most one successful MachineTypesGet; and every caller that got a machine
\* type for a key got the one the map holds for it.
C35_CacheAccessUnderMutex ==
    /\ \A g \in Goroutines : callers[g].pc \in InsideLock => mc.cacheMutex = g
    /\ \A i \in 1..Len(fetches) : ~fetches[i].stored
    /\ \A key \in CacheKeys : Cardinality(FetchedOK(key)) <= 1
    /\ \A g \in Goroutines :
          Returned(g) =>
              callers[g].ret.mt = mc.machineTypesCache[KeyOf(callers[g].args)]

\* two goroutines asked for the same key while the other was inside, and both
\* hold the machine type one MachineTypesGet fetched
C35_Witness ==
    /\ Returned("g1") /\ Returned("g2")
    /\ KeyOf(callers["g1"].args) = KeyOf(callers["g2"].args)
    /\ callers["g1"].n = 1 /\ callers["g2"].n = 1
    /\ Len(fetches) = 1
    /\ callers["g1"].ret.mt = callers["g2"].ret.mt

\* C36: the cache is keyed by zone and machine type alone.  A lookup that finds
\* the key returns the stored entry and calls no MachineTypesGet, whatever the
\* project and the compute service of the call; an entry is stored only by a
\* successful MachineTypesGet and is what that call returned; a failed or
\* not-found MachineTypesGet leaves the map as it was and returns no type.
C36_KeyedByZoneAndTypeOnly ==
    /\ [][\A g \in Goroutines :
            (callers[g].pc = "lookup" /\ callers'[g].pc # "lookup"
             /\ mc.machineTypesCache[KeyOf(callers[g].args)] # NoType)
                => /\ fetches' = fetches
                   /\ callers'[g].pc = "Unlock"
                   /\ callers'[g].ret =
                         [mt |-> mc.machineTypesCache[KeyOf(callers[g].args)],
                          err |-> "nil"]]_vars
    /\ [][\A g \in Goroutines :
            (callers[g].pc = "MachineTypesGet" /\ callers'[g].pc = "Unlock")
                => /\ mc'.machineTypesCache = mc.machineTypesCache
                   /\ callers'[g].ret.mt = NoType
                   /\ fetches'[Len(fetches')].r # "ok"]_vars
    /\ [](\A key \in CacheKeys :
            mc.machineTypesCache[key] # NoType =>
                \E i \in FetchedOK(key) :
                    mc.machineTypesCache[key] =
                        MachineTypesGet(fetches[i].args.gcpService,
                                        fetches[i].args.projectID,
                                        fetches[i].args.zone,
                                        fetches[i].args.machineType))

\* a caller of one project and service holds the entry fetched by the service
\* of another project, and made no MachineTypesGet of its own
C36_Witness ==
    /\ Returned("g2")
    /\ callers["g2"].ret.mt.project # callers["g2"].args.projectID
    /\ callers["g2"].ret.mt.by # callers["g2"].args.gcpService
    /\ \A i \in 1..Len(fetches) : fetches[i].args # callers["g2"].args
    /\ \E i \in 1..Len(fetches) :
          fetches[i].r \in {"404", "err"} /\ KeyOf(fetches[i].args) = KeyOf(callers["g2"].args)

(* ---------------------------- claim C37 -------------------------------- *)

\* this step is an Actuator.Exists call
ExistsStep ==
    /\ Len(round') = 1
    /\ round'[1].op = "exists"
    /\ round' # round \/ cached' # cached

\* C37: Actuator.Exists persists nothing.  Whatever its outcome (scope
\* construction failed, exists() answered true or false or failed) it never
\* calls Close, makes no write to the Machine store and hands no event to the
\* recorder, and the stored Machine and its status are after the call what
\* they were before it, so the Create or Update that follows finds the store
\* as Exists found it.
C37_ExistsPersistsNothing ==
    [][ExistsStep =>
          /\ machine' = machine
          /\ status' = status
          /\ cloud' = cloud
          /\ round'[1].closes = 0
          /\ round'[1].writes = <<>>
          /\ round'[1].closeErr = NilError
          /\ round'[1].rvAfter = round'[1].rvBefore]_vars

\* an Exists that found the instance of a Machine the store has a newer
\* version of than the copy it was handed
C37_Witness ==
    /\ Ran("exists")
    /\ Last.reconciler = "true"
    /\ Last.closes = 0
    /\ Last.writes = <<>>
    /\ cached.machine.resourceVersion < machine.resourceVersion

(* ---------------------------- claim C38 -------------------------------- *)

\* the places of the handler's calls that bear one of the names
CallsAt(rec, names) == {i \in 1..Len(rec.calls) : rec.calls[i].c \in names}

\* the place of a pool in the configured list
PoolIndex(pool) ==
    CHOOSE i \in 1..Len(machine.targetPools) : machine.targetPools[i] = pool

\* C38: delete() takes the instance out of its target pools before it checks
\* existence or submits InstancesDelete: every target-pool call of a delete()
\* comes before its ZonesGet, InstancesGet and InstancesDelete, and the pools
\* are visited in the configured order.  When a TargetPoolsGet or
\* TargetPoolsRemoveInstance fails, delete() returns an error with that call
\* as its last: no InstancesDelete, no existence check, no call for a pool
\* configured after the failing one.
C38_PoolsLeftBeforeDelete ==
    Ran("delete") =>
        /\ \A i \in CallsAt(Last, PoolCallNames),
              j \in CallsAt(Last, {"ZonesGet", "InstancesGet", "InstancesDelete"}) :
              i < j
        /\ \A i, j \in CallsAt(Last, PoolCallNames) :
              i < j => PoolIndex(Last.calls[i].a) <= PoolIndex(Last.calls[j].a)
        /\ ~Made(Last, "TargetPoolsAddInstance")
        /\ \A i \in CallsAt(Last, PoolCallNames) :
              Last.calls[i].r = "err" =>
                  /\ i = Len(Last.calls)
                  /\ Last.ret = "error"
                  /\ ~Made(Last, "InstancesDelete")
                  /\ ~Made(Last, "InstancesGet")

\* the removal from the first of two pools failed: the second pool was not
\* read and the instance, which exists, was not deleted
C38_Witness ==
    /\ Ran("delete")
    /\ Len(machine.targetPools) = 2
    /\ Last.calls = <<Call("TargetPoolsGet", "p1", "present"),
                      Call("TargetPoolsRemoveInstance", "p1", "err")>>
    /\ Last.ret = "error"
    /\ cloud.inst = "RUNNING"
    /\ cloud.members = {"p1", "p2"}

(* ======================= the termination handler ======================== *)

\* handler.Run starts h.run in a goroutine and waits for the stop channel or
\* for run's result.  h.run finds the Machine of the node and subscribes to
\* the instance/preempted metadata value; metadata.Subscribe takes no context:
\* it returns when markForDeletion returns an error, after the call for a
\* deleted value, or with an error of its own.

errFetching == "error fetching machine for node"
errWaiting == "Error waiting for instance termination"

RunResults == {"nil", errFetching, errWaiting}

InitHandler ==
    /\ stopClosed = FALSE
    /\ errs = <<>>
    /\ wg = 0
    /\ ctxDone = FALSE
    /\ pc = [Run |-> "start", go |-> "unborn"]
    /\ results = [run |-> "", Run |-> "", taken |-> "", updates |-> 0,
                  deleted |-> FALSE]
    /\ MachineIdle /\ CacheIdle /\ QuotaIdle

\* the caller closes the stop channel
CloseStop ==
    /\ ~stopClosed
    /\ stopClosed' = TRUE
    /\ UNCHANGED <<errs, wg, ctxDone, pc, results>>
    /\ UNCHANGED <<machineVars, cacheVars, quotaVars>>

\* context.WithCancel, make(chan error, 1), wg.Add(1) and the go statement
RunStart ==
    /\ pc.Run = "start"
    /\ wg' = wg + 1
    /\ pc' = [Run |-> "select", go |-> "getMachineForNode"]
    /\ UNCHANGED <<stopClosed, errs, ctxDone, results>>
    /\ UNCHANGED <<machineVars, cacheVars, quotaVars>>

\* select takes case <-stop; when both cases are ready it takes either
SelectStop ==
    /\ pc.Run = "select"
    /\ stopClosed
    /\ pc' = [pc EXCEPT !.Run = "cancel"]
    /\ results' = [results EXCEPT !.taken = "stop"]
    /\ UNCHANGED <<stopClosed, errs, wg, ctxDone>>
    /\ UNCHANGED <<machineVars, cacheVars, quotaVars>>

\* select takes case err := <-errs
SelectErrs ==
    /\ pc.Run = "select"
    /\ Len(errs) > 0
    /\ errs' = Tail(errs)
    /\ pc' = [pc EXCEPT !.Run = "cancel"]
    /\ results' = [results EXCEPT !.taken = "errs", !.Run = Head(errs)]
    /\ UNCHANGED <<stopClosed, wg, ctxDone>>
    /\ UNCHANGED <<machineVars, cacheVars, quotaVars>>

\* cancel(), in either case
RunCancel ==
    /\ pc.Run = "cancel"
    /\ ctxDone' = TRUE
    /\ pc' = [pc EXCEPT !.Run = IF results.taken = "stop" THEN "Wait" ELSE "returned"]
    /\ UNCHANGED <<stopClosed, errs, wg, results>>
    /\ UNCHANGED <<machineVars, cacheVars, quotaVars>>

\* wg.Wait() and return nil
RunWait ==
    /\ pc.Run = "Wait"
    /\ wg = 0
    /\ pc' = [pc EXCEPT !.Run = "returned"]
    /\ results' = [results EXCEPT !.Run = "nil"]
    /\ UNCHANGED <<stopClosed, errs, wg, ctxDone>>
    /\ UNCHANGED <<machineVars, cacheVars, quotaVars>>

\* client.Delete(h.ctx, h.machine): a cancelled context fails it
DeleteOutcomes == IF ctxDone THEN {"err"} ELSE {"ok", "err"}

\* h.getMachineForNode: client.List with h.ctx, then the search of the list
GetMachineForNode ==
    /\ pc.go = "getMachineForNode"
    /\ \E list \in (IF ctxDone THEN {"err"} ELSE {"found", "notfound", "err"}) :
          IF list = "found"
          THEN /\ pc' = [pc EXCEPT !.go = "Subscribe"]
               /\ UNCHANGED results
          ELSE /\ pc' = [pc EXCEPT !.go = "send"]
               /\ results' = [results EXCEPT !.run = errFetching]
    /\ UNCHANGED <<stopClosed, errs, wg, ctxDone>>
    /\ UNCHANGED <<machineVars, cacheVars, quotaVars>>

\* Subscribe hands markForDeletion a value that is not "TRUE": nil, and
\* Subscribe goes on waiting
SubscribeNotMarked ==
    /\ pc.go = "Subscribe"
    /\ results.updates < MaxUpdates
    /\ results' = [results EXCEPT !.updates = @ + 1]
    /\ UNCHANGED <<stopClosed, errs, wg, ctxDone, pc>>
    /\ UNCHANGED <<machineVars, cacheVars, quotaVars>>

\* Subscribe hands markForDeletion "TRUE": the Machine is deleted; an error
\* of the deletion ends Subscribe, after a success it goes on waiting
SubscribeMarked ==
    /\ pc.go = "Subscribe"
    /\ results.updates < MaxUpdates
    /\ \E del \in DeleteOutcomes :
          IF del = "ok"
          THEN /\ results' = [results EXCEPT !.updates = @ + 1, !.deleted = TRUE]
               /\ UNCHANGED pc
          ELSE /\ results' = [results EXCEPT !.run = errWaiting]
               /\ pc' = [pc EXCEPT !.go = "send"]
    /\ UNCHANGED <<stopClosed, errs, wg, ctxDone>>
    /\ UNCHANGED <<machineVars, cacheVars, quotaVars>>

\* the metadata value is deleted: markForDeletion deletes the Machine and
\* Subscribe returns what it returned
SubscribeValueDeleted ==
    /\ pc.go = "Subscribe"
    /\ \E del \in DeleteOutcomes :
          results' = [results EXCEPT
                         !.run = IF del = "ok" THEN "nil" ELSE errWaiting,
                         !.deleted = @ \/ del = "ok"]
    /\ pc' = [pc EXCEPT !.go = "send"]
    /\ UNCHANGED <<stopClosed, errs, wg, ctxDone>>
    /\ UNCHANGED <<machineVars, cacheVars, quotaVars>>

\* Subscribe fails by itself
SubscribeFails ==
    /\ pc.go = "Subscribe"
    /\ results' = [results EXCEPT !.run = errWaiting]
    /\ pc' = [pc EXCEPT !.go = "send"]
    /\ UNCHANGED <<stopClosed, errs, wg, ctxDone>>
    /\ UNCHANGED <<machineVars, cacheVars, quotaVars>>

\* errs <- h.run(): the send waits for room in the buffer
SendResult ==
    /\ pc.go = "send"
    /\ Len(errs) < 1
    /\ errs' = Append(errs, results.run)
    /\ pc' = [pc EXCEPT !.go = "Done"]
    /\ UNCHANGED <<stopClosed, wg, ctxDone, results>>
    /\ UNCHANGED <<machineVars, cacheVars, quotaVars>>

\* the deferred wg.Done()
GoDone ==
    /\ pc.go = "Done"
    /\ wg' = wg - 1
    /\ pc' = [pc EXCEPT !.go = "exited"]
    /\ UNCHANGED <<stopClosed, errs, ctxDone, results>>
    /\ UNCHANGED <<machineVars, cacheVars, quotaVars>>

NextHandler ==
    \/ CloseStop
    \/ RunStart
    \/ SelectStop
    \/ SelectErrs
    \/ RunCancel
    \/ RunWait
    \/ GetMachineForNode
    \/ SubscribeNotMarked
    \/ SubscribeMarked
    \/ SubscribeValueDeleted
    \/ SubscribeFails
    \/ SendResult
    \/ GoDone

\* the scheduler runs each goroutine that can take a step; when the metadata
\* value changes and when the stop channel is closed is up to the environment
FairHandler ==
    /\ WF_vars(RunStart)
    /\ WF_vars(SelectStop \/ SelectErrs)
    /\ WF_vars(RunCancel)
    /\ WF_vars(RunWait)
    /\ WF_vars(GetMachineForNode)
    /\ WF_vars(SendResult)
    /\ WF_vars(GoDone)

SpecHandler == InitHandler /\ [][NextHandler]_vars /\ FairHandler

(* ---- C39 ---- *)

RunReturned == pc.Run = "returned"

GoExited == pc.go = "exited"

\* what Run may do in a state: the result it hands back is run's when the
\* select received it, nil after the stop case and then only once the run
\* goroutine has exited, with the context cancelled; the send finds room
RunSafe ==
    /\ (RunReturned /\ results.taken = "errs") =>
           (results.Run = results.run /\ ctxDone)
    /\ (RunReturned /\ results.taken = "stop") =>
           (results.Run = "nil" /\ ctxDone /\ GoExited)
    /\ (pc.go = "send") => (Len(errs) = 0)

\* C39: Run returns run's result when run finishes first; when the stop
\* channel is closed first it cancels the context, eventually returns nil,
\* and only after the run goroutine has exited; the run goroutine never
\* blocks on sending its result.
C39_RunReturns ==
    /\ []RunSafe
    /\ (results.taken = "stop") ~> (RunReturned /\ results.Run = "nil")
    /\ GoExited ~> RunReturned

\* what holds of Run whatever Subscribe does: the same, with the return
\* after the stop case waiting for the goroutine's exit
C39_RunReturnsOnceRunExits ==
    /\ []RunSafe
    /\ (results.taken = "stop" /\ GoExited) ~> (RunReturned /\ results.Run = "nil")
    /\ GoExited ~> RunReturned

\* Run waits in wg.Wait() with the context cancelled while run sits in Subscribe
C39_Stuck == pc.Run = "Wait" /\ ctxDone /\ pc.go = "Subscribe"

(* ============================== checkQuota ============================== *)

supportedGpuTypes ==
    [t \in {"nvidia-tesla-k80", "nvidia-tesla-p100", "nvidia-tesla-v100",
            "nvidia-tesla-a100", "nvidia-tesla-p4", "nvidia-tesla-t4"} |->
        CASE t = "nvidia-tesla-k80" -> "NVIDIA_K80_GPUS"
          [] t = "nvidia-tesla-p100" -> "NVIDIA_P100_GPUS"
          [] t = "nvidia-tesla-v100" -> "NVIDIA_V100_GPUS"
          [] t = "nvidia-tesla-a100" -> "NVIDIA_A100_GPUS"
          [] t = "nvidia-tesla-p4" -> "NVIDIA_P4_GPUS"
          [] t = "nvidia-tesla-t4" -> "NVIDIA_T4_GPUS"]

\* supportedGpuTypes[t] of Go: the empty string for a missing key
gpuMetric(t) == IF t \in DOMAIN supportedGpuTypes THEN supportedGpuTypes[t] ELSE ""

\* float64 values are kept in halves; int64(x) truncates
int64(halves) == halves \div 2

AcceleratorTypes == {"nvidia-tesla-t4", "nvidia-tesla-a100", "nvidia-h100"}

QuotaMetrics == {"NVIDIA_T4_GPUS", "PREEMPTIBLE_NVIDIA_T4_GPUS", "NVIDIA_A100_GPUS"}

\* compute.Quota
Quota == [Metric : QuotaMetrics, Usage : 0..(MaxHalves - 2), Limit : 2..MaxHalves]

QuotaLists == UNION {[1..n -> Quota] : n \in 0..MaxQuotas}

\* v1beta1.GCPAcceleratorConfig
AcceleratorConfigs == [AcceleratorType : AcceleratorTypes, AcceleratorCount : 1..MaxAccelCount]

\* what one call of checkQuota reads: its argument, the provider spec and the
\* answers of RegionGet and AcceleratorTypeGet.  validateGuestAccelerators
\* calls it with 0 for an N1 machine type with GuestAccelerators and with the
\* count of the machine type for an A2 machine type without
QuotaInputs ==
    {in \in [machineTypeAcceleratorCount : 0..MaxAccelCount,
             GuestAccelerators : {<<>>} \cup {<<a>> : a \in AcceleratorConfigs},
             Preemptible : BOOLEAN,
             regionGet : {"ok", "err"},
             Quotas : QuotaLists,
             acceleratorTypeGet : {"ok", "err"}] :
        /\ (in.machineTypeAcceleratorCount = 0) <=> (in.GuestAccelerators # <<>>)
        /\ in.regionGet = "err" => in.Quotas = <<>>}

quotaNil == [kind |-> "nil", reason |-> ""]

invalidMachineConfiguration(reason) ==
    [kind |-> "InvalidMachineConfiguration", reason |-> reason]

\* the accelerator checkQuota looks at
quotaAccelerator(in) ==
    IF in.machineTypeAcceleratorCount # 0
    THEN [AcceleratorType |-> "nvidia-tesla-a100",
          AcceleratorCount |-> in.machineTypeAcceleratorCount]
    ELSE in.GuestAccelerators[1]

\* the metric checkQuota looks for
quotaMetric(in) ==
    LET metric == gpuMetric(quotaAccelerator(in).AcceleratorType)
    IN IF in.Preemptible THEN "PREEMPTIBLE_" \o metric ELSE metric

RECURSIVE quotaLoop(_, _, _, _)
\* for i, q := range quotas, from index i on
quotaLoop(quotas, i, metric, count) ==
    IF i > Len(quotas)
    THEN quotaNil
    ELSE IF quotas[i].Metric = metric
         THEN IF int64(quotas[i].Usage) + count > int64(quotas[i].Limit)
              THEN invalidMachineConfiguration("Quota exceeded")
              ELSE quotaNil
         ELSE IF i = Len(quotas)
              THEN invalidMachineConfiguration("No quota found")
              ELSE quotaLoop(quotas, i + 1, metric, count)

checkQuota(in) ==
    IF in.regionGet = "err"
    THEN invalidMachineConfiguration("Failed to get region")
    ELSE IF in.acceleratorTypeGet = "err"
         THEN invalidMachineConfiguration("AcceleratorType not available in the zone")
         ELSE IF gpuMetric(quotaAccelerator(in).AcceleratorType) = ""
              THEN invalidMachineConfiguration("Unsupported accelerator type")
              ELSE quotaLoop(in.Quotas, 1, quotaMetric(in),
                             quotaAccelerator(in).AcceleratorCount)

NotChecked == [kind |-> "", reason |-> ""]

InitQuota ==
    /\ checked \in [in : QuotaInputs, out : {NotChecked}]
    /\ MachineIdle /\ CacheIdle /\ HandlerIdle

CheckQuota ==
    /\ checked.out = NotChecked
    /\ checked' = [checked EXCEPT !.out = checkQuota(checked.in)]
    /\ UNCHANGED <<machineVars, cacheVars, handlerVars>>

NextQuota == CheckQuota

SpecQuota == InitQuota /\ [][NextQuota]_vars

(* ---- C40 ---- *)

QuotaChecked == checked # <<>> /\ checked.out # NotChecked

\* the indices of the entries for the metric of the call
MetricEntries == {i \in 1..Len(checked.in.Quotas) :
                     checked.in.Quotas[i].Metric = quotaMetric(checked.in)}

\* usage + requested count <= limit for entry i, in halves
WithinLimit(i) ==
    checked.in.Quotas[i].Usage + 2 * quotaAccelerator(checked.in).AcceleratorCount
        <= checked.in.Quotas[i].Limit

\* C40: checkQuota returns nil only if the quota list holds an entry for the
\* accelerator's metric with usage + requested count <= limit; with no entry
\* for the metric, the empty list included, or with the sum above the limit,
\* it returns an InvalidMachineConfiguration error.
C40_QuotaChecked ==
    QuotaChecked =>
       /\ (checked.out.kind = "nil") => (\E i \in MetricEntries : WithinLimit(i))
       /\ (MetricEntries = {}) => (checked.out.kind = "InvalidMachineConfiguration")
       /\ (\A i \in MetricEntries : ~WithinLimit(i)) =>
              (checked.out.kind = "InvalidMachineConfiguration")

\* entry i passes the comparison checkQuota makes, on the truncated values
WithinLimitInt64(i) ==
    int64(checked.in.Quotas[i].Usage) + quotaAccelerator(checked.in).AcceleratorCount
        <= int64(checked.in.Quotas[i].Limit)

\* what checkQuota computes once both calls succeeded for a supported type:
\* nil for the empty list, else by the first entry for the metric
C40_FirstEntryDecides ==
    (/\ QuotaChecked
     /\ checked.in.regionGet = "ok" /\ checked.in.acceleratorTypeGet = "ok"
     /\ gpuMetric(quotaAccelerator(checked.in).AcceleratorType) # "") =>
       (checked.out.kind = "nil") <=>
          \/ checked.in.Quotas = <<>>
          \/ /\ MetricEntries # {}
             /\ WithinLimitInt64(CHOOSE i \in MetricEntries :
                                    \A j \in MetricEntries : i <= j)

\* a supported accelerator checked against a region without quotas: nil
C40_EmptyListPasses ==
    /\ QuotaChecked
    /\ checked.in.regionGet = "ok" /\ checked.in.acceleratorTypeGet = "ok"
    /\ checked.in.Quotas = <<>>
    /\ checked.out.kind = "nil"

====
